---------------------------- MODULE Spec2Model ----------------------------
(***************************************************************************)
(* A model of almdrlib, the Alert Logic OpenAPI v3 dynamic client:         *)
(* Client construction and operation indexing, Operation invocation        *)
(* (parameter and request-body serialization), Operation.get_schema,       *)
(* Server URL resolution and Session.get_url / request / authentication.   *)
(*                                                                         *)
(* Python values are tagged records.  A Python str is a sequence of        *)
(* tokens: every maximal alphanumeric run is one token and every other     *)
(* character is a token of its own, so equal strings have equal token      *)
(* sequences.                                                              *)
(***************************************************************************)
EXTENDS Integers, Sequences, FiniteSets, TLC

VARIABLES
    paths,      \* Client.paths: the document's `paths`, popped by indexing
    servers,    \* the document's `servers` list (input of load_spec)
    session,    \* the Session object (present = FALSE: Client(name) alone)
    client,     \* the Client object: servers, chosen server, operations
    result,     \* what the last operation returned or raised
    log,        \* collaborator calls made by the last operation, in order
    kw,         \* the kwargs dict of the last invocation when it ended
    threads,    \* the callers that share the client, each at its position
                \* in Operation.__call__
    doc,        \* the loaded spec document, as the objects it is made of
    search      \* the Search object and the call that runs on it

vars == <<paths, servers, session, client, result, log, kw, threads, doc,
          search>>

---------------------------------------------------------------------------
(* Python values *)

NoneV == [t |-> "none"]
StrV(s) == [t |-> "str", s |-> s]
BytesV(s) == [t |-> "bytes", s |-> s]
IntV(n) == [t |-> "int", n |-> n]
BoolV(b) == [t |-> "bool", b |-> b]
DictV(d) == [t |-> "dict", d |-> d]
ListV(l) == [t |-> "list", l |-> l]

IsNone(v) == v.t = "none"

\* Python truthiness (bool(value)), used by `not self.default`,
\* `value and "true" or "false"`, `if variables`, `if not schema`.
Truthy(v) ==
    CASE v.t = "none" -> FALSE
      [] v.t = "str" -> v.s # <<>>
      [] v.t = "bytes" -> v.s # <<>>
      [] v.t = "int" -> v.n # 0
      [] v.t = "bool" -> v.b
      [] v.t = "dict" -> v.d # <<>>
      [] v.t = "list" -> v.l # <<>>

\* sep.join(parts) on token sequences
RECURSIVE Join(_, _)
Join(sep, parts) ==
    IF parts = <<>> THEN <<>>
    ELSE IF Len(parts) = 1 THEN parts[1]
    ELSE parts[1] \o sep \o Join(sep, Tail(parts))

\* Python repr of a str: the text in single quotes
PyRepr(s) == <<"'">> \o s \o <<"'">>

\* str(value), as Python prints builtin values
RECURSIVE PyStr(_, _)
PyStr(v, top) ==
    CASE v.t = "none" -> <<"None">>
      [] v.t = "str" -> IF top THEN v.s ELSE PyRepr(v.s)
      [] v.t = "bytes" -> <<"b">> \o PyRepr(v.s)
      [] v.t = "int" -> <<ToString(v.n)>>
      [] v.t = "bool" -> IF v.b THEN <<"True">> ELSE <<"False">>
      [] v.t = "dict" ->
            <<"{">> \o
            Join(<<",", " ">>,
                 [i \in 1..Len(v.d) |->
                    PyRepr(v.d[i][1]) \o <<":", " ">> \o PyStr(v.d[i][2], FALSE)])
            \o <<"}">>
      [] v.t = "list" ->
            <<"[">> \o
            Join(<<",", " ">>, [i \in 1..Len(v.l) |-> PyStr(v.l[i], FALSE)])
            \o <<"]">>

\* json.dumps(value) with the default separators
RECURSIVE JsonDumps(_)
JsonDumps(v) ==
    CASE v.t = "none" -> <<"null">>
      [] v.t = "str" -> <<"\"">> \o v.s \o <<"\"">>
      [] v.t = "int" -> <<ToString(v.n)>>
      [] v.t = "bool" -> IF v.b THEN <<"true">> ELSE <<"false">>
      [] v.t = "dict" ->
            <<"{">> \o
            Join(<<",", " ">>,
                 [i \in 1..Len(v.d) |->
                    <<"\"">> \o v.d[i][1] \o <<"\"">> \o <<":", " ">>
                    \o JsonDumps(v.d[i][2])])
            \o <<"}">>
      [] v.t = "list" ->
            <<"[">> \o
            Join(<<",", " ">>, [i \in 1..Len(v.l) |-> JsonDumps(v.l[i])])
            \o <<"]">>

\* serialize_value(datatype, value)
serialize_value(datatype, value) ==
    IF datatype = "string" THEN value
    ELSE IF datatype = "boolean"
         THEN (IF Truthy(value) THEN StrV(<<"true">>) ELSE StrV(<<"false">>))
    ELSE StrV(PyStr(value, TRUE))

---------------------------------------------------------------------------
(* Dictionaries: a Python dict with str keys is a TLA+ function from key   *)
(* token sequences to values; dicts whose order is observable (response    *)
(* bodies, schema properties, content maps) are sequences of pairs.        *)

EmptyMap == <<>>

\* d.update({k: v}) / d[k] = v
Put(d, k, v) == (k :> v) @@ d

\* target.update(source)
Update(target, source) == source @@ target

\* d without key k (what d.pop(k) leaves)
Without(d, k) == [x \in DOMAIN d \ {k} |-> d[x]]

\* key lookup in a DictV value
HasKey(v, k) == v.t = "dict" /\ \E i \in 1..Len(v.d) : v.d[i][1] = k
GetKey(v, k) == v.d[CHOOSE i \in 1..Len(v.d) : v.d[i][1] = k][2]

---------------------------------------------------------------------------
(* Results of a call: the objects it may have changed, what it returned    *)
(* (ret) and the exception it raised (exc, NoneV when it returned).        *)

Exc(cls, msg) == [t |-> "exc", cls |-> cls, msg |-> msg]

Ret(s, lg, ret) == [s |-> s, log |-> lg, ret |-> ret, exc |-> NoneV]
Raise(s, lg, exc) == [s |-> s, log |-> lg, ret |-> NoneV, exc |-> exc]
Raised(r) == ~IsNone(r.exc)

---------------------------------------------------------------------------
(* almdrlib.region *)

T_https == <<"https", ":", "/", "/">>
T_http == <<"http", ":", "/", "/">>

\* ENDPOINTS
EP_production == <<"production">>
EP_integration == <<"integration">>
EP_map == <<"map">>
ENDPOINTS ==
    (EP_production :>
        (T_https \o <<"api", ".", "global", "-", "services", ".", "global",
                      ".", "alertlogic", ".", "com">>))
    @@
    (EP_integration :>
        (T_https \o <<"api", ".", "global", "-", "integration", ".", "product",
                      ".", "dev", ".", "alertlogic", ".", "com">>))

\* Region.get_global_endpoint(endpoint)
get_global_endpoint(endpoint) ==
    IF endpoint \in DOMAIN ENDPOINTS THEN ENDPOINTS[endpoint] ELSE endpoint

\* Region.get_endpoint_url(url, service_name, account_id, residency)
get_endpoint_url(url, service_name, account_id, residency) ==
    url \o <<"/", "endpoints", "/", "v1", "/">> \o PyStr(account_id, TRUE)
        \o <<"/", "residency", "/">> \o residency
        \o <<"/", "services", "/">> \o service_name \o <<"/", "endpoint">>

---------------------------------------------------------------------------
(* The HTTP layer (requests.Session) is the environment: env gives the     *)
(* response it returns to each kind of call made during one operation.     *)

Response(status, body) == [t |-> "response", status |-> status, body |-> body]

\* requests.Response.raise_for_status raises HTTPError for 4xx and 5xx
IsHttpError(resp) == resp.status >= 400

K(name) == <<name>>

AccountInfo == DictV(<< <<K("id"), StrV(<<"2">>)>>,
                        <<K("name"), StrV(<<"Alert", " ", "Logic">>)>> >>)
UserInfo == DictV(<< <<K("id"), StrV(<<"589B64BB">>)>> >>)

AuthResponses ==
    { Response(200, DictV(<< <<K("authentication"),
            DictV(<< <<K("user"), UserInfo>>, <<K("account"), AccountInfo>>,
                     <<K("token"), StrV(<<"123">>)>> >>)>> >>)),
      Response(200, DictV(<< <<K("authentication"),
            DictV(<< <<K("user"), UserInfo>>, <<K("account"), AccountInfo>> >>)>> >>)),
      Response(401, DictV(<<>>)) }

TokenInfoResponses ==
    { Response(200, DictV(<< <<K("account"), AccountInfo>> >>)),
      Response(200, DictV(<<>>)),
      Response(401, DictV(<<>>)) }

ServiceName == <<"aetuner">>
ServiceHost == <<"api", ".", "alertlogic", ".", "com">>

ApiResponses ==
    { Response(200, DictV(<< <<ServiceName, StrV(ServiceHost)>> >>)),
      Response(200, DictV(<<>>)),
      Response(404, DictV(<<>>)) }

\* keyword options requests.Session.request accepts besides method, url,
\* params, headers and cookies
RequestsOptions ==
    { K("data"), K("json"), K("files"), K("auth"), K("timeout"),
      K("allow_redirects"), K("proxies"), K("hooks"), K("stream"),
      K("verify"), K("cert") }

---------------------------------------------------------------------------
(* almdrlib.session.Session *)

H_token == <<"x", "-", "aims", "-", "auth", "-", "token">>
SKIP == StrV(<<"skip">>)

AuthenticationException(msg) == Exc("AuthenticationException", msg)

HttpEvent(kind, method, url, headers) ==
    [ev |-> "http", kind |-> kind, method |-> method, url |-> url,
     headers |-> headers]

\* the `if self._account_id is None:` tail of Session._authenticate
AuthAccountTail(s, lg, account_info) ==
    IF IsNone(s.account_id)
    THEN IF HasKey(account_info, K("id")) /\ HasKey(account_info, K("name"))
         THEN Ret([s EXCEPT !.account_id = GetKey(account_info, K("id")),
                            !.account_name = GetKey(account_info, K("name"))],
                  lg, NoneV)
         ELSE IF HasKey(account_info, K("id"))
         THEN Raise([s EXCEPT !.account_id = GetKey(account_info, K("id"))], lg,
                    AuthenticationException("account information not found in response"))
         ELSE Raise(s, lg,
                    AuthenticationException("account information not found in response"))
    ELSE Ret(s, lg, NoneV)

\* _authenticate that makes no credential exchange: a token is checked and
\* given up when rejected, and without a token nothing is asked
AuthenticateGivesUp(s, lg, env) ==
    IF Truthy(s.token)
    THEN IF IsHttpError(env.token_info)
         THEN Raise([s EXCEPT !.token = NoneV],
                    Append(lg, HttpEvent("token_info", "get",
                               s.global_endpoint_url
                                 \o <<"/", "aims", "/", "v1", "/", "token_info">>,
                               (H_token :> s.token))),
                    AuthenticationException("invalid http response"))
         ELSE Ret(s, Append(lg, HttpEvent("token_info", "get",
                               s.global_endpoint_url
                                 \o <<"/", "aims", "/", "v1", "/", "token_info">>,
                               (H_token :> s.token))), NoneV)
    ELSE Ret([s EXCEPT !.token = StrV(<<>>)], lg, NoneV)

\* Session._authenticate
RECURSIVE _authenticate(_, _, _)
_authenticate(s, lg, env) ==
    IF ~Truthy(s.token)
    THEN IF s.access_key_id = SKIP /\ s.secret_key = SKIP
         THEN Ret([s EXCEPT !.token = StrV(<<>>), !.account_id = StrV(<<>>),
                            !.account_name = StrV(<<>>), !.user_id = StrV(<<>>)],
                  lg, NoneV)
         ELSE
           LET s1 == [s EXCEPT !.basic_auth = TRUE]
               lg1 == Append(lg, HttpEvent("authenticate", "post",
                          s.global_endpoint_url
                            \o <<"/", "aims", "/", "v1", "/", "authenticate">>,
                          EmptyMap))
               resp == env.authenticate
               auth == IF HasKey(resp.body, K("authentication"))
                       THEN GetKey(resp.body, K("authentication")) ELSE NoneV
           IN  IF IsHttpError(resp)
               THEN Raise(s1, lg1, AuthenticationException("invalid http response"))
               ELSE IF ~HasKey(auth, K("account"))
               THEN Raise(s1, lg1, AuthenticationException("token not found in response"))
               ELSE IF ~HasKey(auth, K("token"))
               THEN Raise(s1, lg1, AuthenticationException("token not found in response"))
               ELSE
                 LET s2 == [s1 EXCEPT !.token = GetKey(auth, K("token"))]
                 IN  IF ~(HasKey(auth, K("user"))
                          /\ HasKey(GetKey(auth, K("user")), K("id")))
                     THEN Raise(s2, lg1,
                            AuthenticationException("token not found in response"))
                     ELSE AuthAccountTail(
                            [s2 EXCEPT !.user_id =
                                GetKey(GetKey(auth, K("user")), K("id"))],
                            lg1, GetKey(auth, K("account")))
    ELSE
      LET lg1 == Append(lg, HttpEvent("token_info", "get",
                     s.global_endpoint_url
                       \o <<"/", "aims", "/", "v1", "/", "token_info">>,
                     (H_token :> s.token)))
          resp == env.token_info
      IN  IF IsHttpError(resp)
          THEN _authenticate([s EXCEPT !.token = NoneV], lg1, env)
          ELSE IF ~HasKey(resp.body, K("account"))
          THEN Raise(s, lg1,
                 AuthenticationException("account information not found in response"))
          ELSE AuthAccountTail(s, lg1, GetKey(resp.body, K("account")))

\* Session.account_id (property)
Authenticated(r) == IF Raised(r) THEN r ELSE Ret(r.s, r.log, r.s.account_id)

account_id(s, lg, env) ==
    IF IsNone(s.account_id) THEN Authenticated(_authenticate(s, lg, env))
    ELSE Ret(s, lg, s.account_id)

\* Session.get_default(name)
get_default(s, lg, env, name) ==
    IF name = <<"account", "_", "id">>
    THEN account_id(s, Append(lg, [ev |-> "get_default", name |-> name]), env)
    ELSE Ret(s, Append(lg, [ev |-> "get_default", name |-> name]), NoneV)

\* SessionRequest that sends the request a second time
SessionRequestTwice(a, env, method, url, params, headers, cookies, options) ==
    IF Raised(a) THEN a
    ELSE
      LET ev == [ev |-> "http", kind |-> "request", method |-> method,
                 url |-> url, params |-> params,
                 headers |-> Put(headers, H_token, a.s.token),
                 cookies |-> cookies, options |-> options]
      IN  Ret(a.s, a.log \o <<ev, ev>>, env.request)

\* Session.request(method, url, params, headers, cookies, **kwargs)
\* a is the outcome of `if self._token is None: self._authenticate()`
SessionRequest(a, env, method, url, params, headers, cookies, options) ==
    IF Raised(a) THEN a
    ELSE
      LET hdrs == Put(headers, H_token, a.s.token)
          lg1 == Append(a.log,
                    [ev |-> "http", kind |-> "request", method |-> method,
                     url |-> url, params |-> params, headers |-> hdrs,
                     cookies |-> cookies, options |-> options])
      IN  IF ~(DOMAIN options \subseteq RequestsOptions)
          THEN Raise(a.s, a.log, Exc("TypeError", "unexpected keyword argument"))
          ELSE IF a.s.raise_for_status /\ IsHttpError(env.request)
          THEN Raise(a.s, lg1, Exc("HTTPError", "raise_for_status"))
          ELSE Ret(a.s, lg1, env.request)

\* request that authenticates before every call, whatever the token
RequestReauthenticating(s, lg, env, method, url, params, headers, cookies, options) ==
    SessionRequest(_authenticate(s, lg, env),
                   env, method, url, params, headers, cookies, options)

request(s, lg, env, method, url, params, headers, cookies, options) ==
    SessionRequest(IF IsNone(s.token) THEN _authenticate(s, lg, env)
                   ELSE Ret(s, lg, NoneV),
                   env, method, url, params, headers, cookies, options)

\* re.match(r'^(http|https)://.*$', endpoint)
IsHttpUrl(endpoint) ==
    /\ Len(endpoint) >= 4
    /\ SubSeq(endpoint, 1, 4) \in {T_http, T_https}

\* Session.get_mapped_url(service_name, account_id)
get_mapped_url(s, lg, service_name) ==
    IF IsNone(s.endpoint_map)
    THEN Raise(s, lg, Exc("TypeError", "'NoneType' object is not subscriptable"))
    ELSE IF ~HasKey(s.endpoint_map, service_name)
    THEN Raise(s, lg, Exc("KeyError", "service_name"))
    ELSE Ret(s, lg, GetKey(s.endpoint_map, service_name))

\* EndpointUrl that returns the host of the response as it is, without the
\* scheme in front
EndpointUrlBare(r, service_name) ==
    IF Raised(r)
    THEN IF r.exc.cls = "HTTPError"
         THEN Raise(r.s, r.log, AuthenticationException(
                    "invalid http response from endpoints service"))
         ELSE r
    ELSE IF IsHttpError(r.ret)
    THEN Raise(r.s, r.log, AuthenticationException(
                    "invalid http response from endpoints service"))
    ELSE IF ~HasKey(r.ret.body, service_name)
    THEN Raise(r.s, r.log, Exc("KeyError", "service_name"))
    ELSE Ret(r.s, r.log, GetKey(r.ret.body, service_name))

\* the try block of Session.get_url and its return, on the outcome r of
\* self.request(...)
EndpointUrl(r, service_name) ==
    IF Raised(r)
    THEN IF r.exc.cls = "HTTPError"
         THEN Raise(r.s, r.log, AuthenticationException(
                    "invalid http response from endpoints service"))
         ELSE r
    ELSE IF IsHttpError(r.ret)
    THEN Raise(r.s, r.log, AuthenticationException(
                    "invalid http response from endpoints service"))
    ELSE IF ~HasKey(r.ret.body, service_name)
    THEN Raise(r.s, r.log, Exc("KeyError", "service_name"))
    ELSE Ret(r.s, r.log,
             StrV(T_https \o PyStr(GetKey(r.ret.body, service_name), TRUE)))

\* acc is the outcome of `account_id or self.account_id`
EndpointRequest(acc, env, service_name) ==
    IF Raised(acc) THEN acc
    ELSE EndpointUrl(
            request(acc.s, acc.log, env, "get",
                    get_endpoint_url(acc.s.global_endpoint_url, service_name,
                                     acc.ret, acc.s.residency),
                    EmptyMap, EmptyMap, EmptyMap, EmptyMap),
            service_name)

\* Session.get_url(service_name, account_id=None)
get_url(s, lg, env, service_name, account) ==
    IF s.global_endpoint = EP_map
    THEN get_mapped_url(s, lg, service_name)
    ELSE IF IsHttpUrl(s.global_endpoint)
    THEN Ret(s, lg, StrV(s.global_endpoint))
    ELSE EndpointRequest(IF Truthy(account) THEN Ret(s, lg, account)
                         ELSE account_id(s, lg, env),
                         env, service_name)

\* Session.validate_server(spec)
validate_server(s, spec) ==
    IF IsNone(spec.global_endpoint) THEN TRUE
    ELSE StrV(s.global_endpoint) = spec.global_endpoint

---------------------------------------------------------------------------
(* str.format with keyword fields, on a template whose replacement fields  *)
(* are an opening brace, the tokens of the name and a closing brace.       *)

FieldEnd(tpl, i) == CHOOSE j \in i..Len(tpl) :
                        tpl[j] = "}" /\ \A k \in i..(j-1) : tpl[k] # "}"

RECURSIVE FormatFrom(_, _, _)
FormatFrom(tpl, i, fields) ==
    IF i > Len(tpl) THEN [ok |-> TRUE, s |-> <<>>]
    ELSE IF tpl[i] = "{"
    THEN LET j == FieldEnd(tpl, i)
             name == SubSeq(tpl, i + 1, j - 1)
         IN  IF name \notin DOMAIN fields THEN [ok |-> FALSE, s |-> name]
             ELSE LET rest == FormatFrom(tpl, j + 1, fields)
                  IN  IF rest.ok
                      THEN [ok |-> TRUE, s |-> PyStr(fields[name], TRUE) \o rest.s]
                      ELSE rest
    ELSE LET rest == FormatFrom(tpl, i + 1, fields)
         IN  IF rest.ok THEN [ok |-> TRUE, s |-> <<tpl[i]>> \o rest.s] ELSE rest

Format(tpl, fields) == FormatFrom(tpl, 1, fields)

---------------------------------------------------------------------------
(* almdrlib.client.Server *)

\* Server.__init__(service_name, spec, session, variables): r.ret is the Server.
\* variables and spec.variables are maps; the empty map stands for None or {}
\* (`if variables` and `if self.variables` do not tell them apart).
\* ServerAt that keeps the URL of the spec and drops what get_url returned
ServerAtStatic(srv, r) ==
    IF Raised(r) THEN r ELSE Ret(r.s, r.log, srv)

ServerAt(srv, r) ==
    IF Raised(r) THEN r ELSE Ret(r.s, r.log, [srv EXCEPT !.url = r.ret])

ServerInit(s, lg, env, service_name, spec, variables) ==
    LET vs == IF variables # EmptyMap THEN variables ELSE spec.variables
        srv == [url |-> StrV(spec.url), variables |-> vs, spec |-> spec]
    IN  IF spec.session_endpoint /\ s.present
        THEN ServerAt(srv, get_url(s, Append(lg, [ev |-> "get_url",
                                                  service |-> service_name]),
                                   env, service_name, NoneV))
        ELSE Ret(s, lg, srv)

\* Server.url (property): ok = FALSE when str.format raises
ServerUrl(srv) ==
    IF srv.variables # EmptyMap
    THEN (IF srv.url.t = "str" THEN Format(srv.url.s, srv.variables)
          ELSE [ok |-> FALSE, s |-> <<>>])
    ELSE [ok |-> srv.url.t = "str",
          s |-> IF srv.url.t = "str" THEN srv.url.s ELSE <<>>]

---------------------------------------------------------------------------
(* JSON Schema.  A schema is a record: type ("" when absent), properties   *)
(* (a sequence of <<name, schema>>, empty when absent), required (a        *)
(* sequence of names) and format ("" when absent).                         *)

Schema(type, properties, required, format) ==
    [type |-> type, properties |-> properties, required |-> required,
     format |-> format]

EmptySchema == Schema("", <<>>, <<>>, "")

PropNames(props) == {props[i][1] : i \in 1..Len(props)}
PropSchema(props, name) ==
    props[CHOOSE i \in 1..Len(props) : props[i][1] = name][2]

\* the JSON Schema `type` keyword
TypeOk(type, v) ==
    CASE type = "" -> TRUE
      [] type = "object" -> v.t = "dict"
      [] type = "array" -> v.t = "list"
      [] type = "string" -> v.t = "str"
      [] type = "integer" -> v.t = "int"
      [] type = "number" -> v.t = "int"
      [] type = "boolean" -> v.t = "bool"
      [] OTHER -> FALSE

\* jsonschema validation of a value: type, required, properties
RECURSIVE Validates(_, _)
Validates(schema, v) ==
    /\ TypeOk(schema.type, v)
    /\ v.t = "dict" =>
        /\ \A i \in 1..Len(schema.required) : HasKey(v, schema.required[i])
        /\ \A i \in 1..Len(v.d) :
              v.d[i][1] \in PropNames(schema.properties) =>
                  Validates(PropSchema(schema.properties, v.d[i][1]), v.d[i][2])

AlmdrlibValueError(msg) == Exc("AlmdrlibValueError", msg)

\* _normalize_schema(name, schema, required)
_normalize_schema(name, schema, required) ==
    IF schema.properties # <<>> THEN schema
    ELSE Schema("object", << <<name, schema>> >>,
                IF required THEN <<name>> ELSE <<>>, "")

---------------------------------------------------------------------------
(* almdrlib.client: request body models *)

CT_json == <<"application", "/", "json">>
CT_al_json == <<"alertlogic", ".", "com", "/", "json">>
CT_text == <<"text", "/", "plain">>
JSON_CONTENT_TYPES == {CT_json, CT_al_json}
SIMPLE_DATA_TYPES == {"string", "boolean", "integer", "number"}
DATA == K("data")
H_content_type == <<"content", "-", "type">>

\* RequestBodyObjectParameter / RequestBodySimpleParameter /
\* RequestBodySchemaParameter (constructors), chosen by RequestBody.add_content
BodyParameter(datatype, name, schema, al_schema, required) ==
    IF datatype = "object"
    THEN LET norm == _normalize_schema(name, schema, required)
         IN  [cls |-> "Object", name |-> name, schema |-> norm,
              required |-> required, explode |-> al_schema.explode,
              properties |-> norm.properties,
              required_properties |-> norm.required, format |-> ""]
    ELSE IF datatype \in SIMPLE_DATA_TYPES
    THEN [cls |-> "Simple", name |-> name, schema |-> schema,
          required |-> required, explode |-> FALSE, properties |-> <<>>,
          required_properties |-> <<>>, format |-> schema.format]
    ELSE [cls |-> "Schema", name |-> name, schema |-> schema,
          required |-> required, explode |-> FALSE, properties |-> <<>>,
          required_properties |-> <<>>, format |-> ""]

\* RequestBody.add_content(content_type, schema, al_schema) on the content
\* map, a sequence of <<content_type, parameter>> in insertion order
add_content(content, content_type, schema, al_schema, required) ==
    IF schema = EmptySchema THEN content
    ELSE LET name == IF al_schema.name = <<>> THEN DATA ELSE al_schema.name
             parameter == BodyParameter(schema.type, name, schema, al_schema,
                                        required)
         IN  IF \E i \in 1..Len(content) : content[i][1] = content_type
             THEN [i \in 1..Len(content) |->
                      IF content[i][1] = content_type
                      THEN <<content_type, parameter>> ELSE content[i]]
             ELSE Append(content, <<content_type, parameter>>)

\* Client._initalize_request_body(body_spec): NoneV or the RequestBody
RECURSIVE AddContents(_, _, _)
AddContents(content, specs, required) ==
    IF specs = <<>> THEN content
    ELSE AddContents(
            add_content(content, specs[1][1], specs[1][2].schema,
                        specs[1][2].al_schema, required),
            Tail(specs), required)

_initalize_request_body(body_spec) ==
    IF IsNone(body_spec) THEN NoneV
    ELSE [t |-> "body", required |-> body_spec.required,
          description |-> body_spec.description,
          content |-> AddContents(<<>>, body_spec.content, body_spec.required)]

---------------------------------------------------------------------------
(* almdrlib.client: parameters, responses, operations, indexing *)

\* name.replace('-', '_') on the tokens of a name
Underscore(name) == [i \in 1..Len(name) |-> IF name[i] = "-" THEN "_" ELSE name[i]]

\* PathParameter.__init__(spec, session) with _init_name: a parameter spec is
\* [name, in, required, type, style, explode] where type = "" stands for no
\* schema type and style = "" for neither style nor explode being given
PathParameter(spec) ==
    [in |-> spec.in,
     name |-> Underscore(spec.name),
     schema_name |-> spec.name,
     required |-> spec.required,
     datatype |-> IF spec.type = "" THEN "string" ELSE spec.type,
     spec |-> spec,
     default |-> NoneV]

\* ParamSchema that also shows the memoized default
ParamSchemaWithDefault(p) ==
    [in |-> p.spec.in, required |-> p.spec.required, type |-> p.spec.type,
     style |-> p.spec.style, explode |-> p.spec.explode, default |-> p.default]

\* PathParameter.schema (property): the spec without its name, the schema's
\* items merged in
ParamSchema(p) ==
    [in |-> p.spec.in, required |-> p.spec.required, type |-> p.spec.type,
     style |-> p.spec.style, explode |-> p.spec.explode]

\* OperationResponse.__init__(schema) with _add_response: responses is a
\* sequence of <<status code characters, content>> where content is a sequence
\* of <<content_type, schema>>; the result is _response_schema
RECURSIVE ResponseSchema(_, _)
ResponseSchema(responses, acc) ==
    IF responses = <<>> THEN acc
    ELSE LET code == responses[1][1]
             content == responses[1][2]
         IN  ResponseSchema(Tail(responses),
                IF code[1] = "2" /\ content # <<>> /\ content[1][2] # EmptySchema
                THEN content[1][2] ELSE acc)

OperationResponse(responses) ==
    [response_schema |-> ResponseSchema(responses, EmptySchema),
     schema |-> [i \in 1..Len(responses) |->
                    IF responses[i][1][1] = "2"
                    THEN <<responses[i][1], <<>> >> ELSE responses[i]]]

\* Operation.__init__
Operation(path, params, summary, description, method, spec, body, response, server) ==
    [path |-> path, params |-> params, summary |-> summary,
     description |-> description, method |-> method, spec |-> spec,
     body |-> body, response |-> response, server |-> server,
     operation_id |-> spec.operationId, call |-> NoneV]

\* HasOperation that finds nothing: `operation_id in self._operations` taken
\* as false
NeverHasOperation(operations, id) == FALSE

\* Operation._gen_call(): the function f, a closure over self alone; `by`
\* tells the function objects of different _gen_call calls apart
_gen_call(op, by) == [t |-> "function", self |-> op.operation_id, by |-> by]

\* the index (an insertion-ordered dict) as a sequence of Operations
HasOperation(operations, id) ==
    \E i \in 1..Len(operations) : operations[i].operation_id = id

\* all <<path index, method index>> of the paths, in iteration order
RECURSIVE Entries(_, _)
Entries(ps, i) ==
    IF i > Len(ps) THEN <<>>
    ELSE [j \in 1..Len(ps[i].methods) |-> <<i, j>>] \o Entries(ps, i + 1)

\* op_spec after pop(SUMMARY), pop(DESCRIPTION)
PopSummary(op_spec) == [op_spec EXCEPT !.summary = NoneV, !.description = NoneV]
\* ... and after pop(REQUEST_BODY), pop(RESPONSES)
PopBody(op_spec) == [op_spec EXCEPT !.requestBody = NoneV, !.responses = NoneV]

SetOpSpec(ps, e, op_spec) == [ps EXCEPT ![e[1]].methods[e[2]].op = op_spec]

\* AlmdrlibValueError(f"Duplication {operation_id} specified for
\* {self._name} API"): args are the values the message is formatted with
DuplicationError(operation_id, name) ==
    [t |-> "exc", cls |-> "AlmdrlibValueError", msg |-> "Duplication",
     args |-> <<operation_id, StrV(name)>>]

\* the body of the two loops of Client._initialize_operations, run over the
\* entries es: [paths, operations, exc]
RECURSIVE IndexEntries(_, _, _, _, _)
IndexEntries(ps, es, operations, server, name) ==
    IF es = <<>> THEN [paths |-> ps, operations |-> operations, exc |-> NoneV]
    ELSE
      LET e == es[1]
          path == ps[e[1]].path
          method == ps[e[1]].methods[e[2]].method
          op_spec == ps[e[1]].methods[e[2]].op
          operation_id == op_spec.operationId
          summary == IF IsNone(op_spec.summary) THEN StrV(<<>>) ELSE op_spec.summary
          description == IF IsNone(op_spec.description) THEN StrV(<<>>)
                         ELSE op_spec.description
          spec1 == PopSummary(op_spec)
          ps1 == SetOpSpec(ps, e, spec1)
      IN  IF ~Truthy(operation_id)
          THEN IndexEntries(ps1, Tail(es), operations, server, name)
          ELSE IF HasOperation(operations, operation_id)
          THEN [paths |-> ps1, operations |-> operations,
                exc |-> DuplicationError(operation_id, name)]
          ELSE
            LET params == [k \in 1..Len(spec1.parameters) |->
                              PathParameter(spec1.parameters[k])]
                body == _initalize_request_body(spec1.requestBody)
                spec2 == [spec1 EXCEPT !.requestBody = NoneV]
                spec3 == PopBody(spec1)
            IN  IF IsNone(spec1.responses)
                THEN [paths |-> SetOpSpec(ps, e, spec2), operations |-> operations,
                      exc |-> Exc("AttributeError",
                                  "'NoneType' object has no attribute 'items'")]
                ELSE IndexEntries(
                        SetOpSpec(ps, e, spec3), Tail(es),
                        Append(operations,
                               Operation(path, params, summary, description,
                                         method, spec3, body,
                                         OperationResponse(spec1.responses.r),
                                         server)),
                        server, name)

\* Client._initialize_operations
_initialize_operations(ps, server, name) ==
    IndexEntries(ps, Entries(ps, 1), <<>>, server, name)

\* _normalize_spec that pops the path-level parameters and appends them to
\* no method
NormalizeSpecPopOnly(ps) ==
    [i \in 1..Len(ps) |-> [ps[i] EXCEPT !.parameters = <<>>]]

\* _normalize_spec: the path-level parameters are popped and appended to the
\* parameters of every method of the path
_normalize_spec(ps) ==
    [i \in 1..Len(ps) |->
        [ps[i] EXCEPT
            !.parameters = <<>>,
            !.methods = [j \in 1..Len(ps[i].methods) |->
                [ps[i].methods[j] EXCEPT
                    !.op.parameters = @ \o ps[i].parameters]]]]

---------------------------------------------------------------------------
(* Operation invocation.  A context c is the state an invocation works on: *)
(* the session, the log, the operation's parameters (with their memoized   *)
(* defaults), the four buckets b, the caller's kwargs kw, and the          *)
(* exception raised so far (NoneV when none).                              *)

NoSessionError == Exc("AttributeError", "'NoneType' object has no attribute")

EmptyBuckets == [path |-> EmptyMap, query |-> EmptyMap, header |-> EmptyMap,
                 cookie |-> EmptyMap]

\* Memoized of a parameter that stops being required once it has a default
MemoizedUnrequired(c, k, r) ==
    IF Raised(r)
    THEN [c |-> [c EXCEPT !.s = r.s, !.log = r.log, !.exc = r.exc],
          ret |-> NoneV]
    ELSE [c |-> [c EXCEPT !.s = r.s, !.log = r.log,
                          !.params[k].default = r.ret,
                          !.params[k].required = FALSE],
          ret |-> r.ret]

\* PathParameter.default (property) of parameter k: [c, ret]
Memoized(c, k, r) ==
    IF Raised(r)
    THEN [c |-> [c EXCEPT !.s = r.s, !.log = r.log, !.exc = r.exc],
          ret |-> NoneV]
    ELSE [c |-> [c EXCEPT !.s = r.s, !.log = r.log,
                          !.params[k].default = r.ret],
          ret |-> r.ret]

\* ParamDefault of a session that has no default for any name
ParamDefaultNone(c, k, env) == [c |-> c, ret |-> NoneV]

ParamDefault(c, k, env) ==
    IF IsNone(c.params[k].default)
    THEN IF ~c.s.present
         THEN [c |-> [c EXCEPT !.exc = NoSessionError], ret |-> NoneV]
         ELSE Memoized(c, k, get_default(c.s, c.log, env, c.params[k].name))
    ELSE [c |-> c, ret |-> c.params[k].default]

\* Bucketed without the dispatch on `in`: every value goes to the query
BucketedInQuery(b, in, key, value) == [b EXCEPT !["query"] = Put(@, key, value)]

\* the bucket a parameter's `in` selects; any other `in` writes nowhere
Bucketed(b, in, key, value) ==
    IF in \in {"path", "query", "header", "cookie"}
    THEN [b EXCEPT ![in] = Put(@, key, value)]
    ELSE b

\* the second half of PathParameter.serialize: the value is popped from the
\* kwargs (the default is evaluated as pop's argument), serialized and put
\* d is the outcome of evaluating self.default
Stored(c, k, d) ==
    LET p == c.params[k]
    IN  IF ~IsNone(d.c.exc) THEN d.c
        ELSE [d.c EXCEPT
                !.kw = Without(c.kw, p.name),
                !.b = Bucketed(d.c.b, p.in, p.schema_name,
                        serialize_value(p.datatype,
                            IF p.name \in DOMAIN c.kw THEN c.kw[p.name]
                            ELSE d.ret))]

ParamStore(c, k, env) == Stored(c, k, ParamDefault(c, k, env))

\* PathParameter.serialize(path_params, query_params, headers, cookies, kwargs)
\* Absent without the `if self._required: raise`: a required parameter left
\* out is skipped like an optional one
AbsentSkipsRequired(k, env, d) ==
    IF ~IsNone(d.c.exc) THEN d.c
    ELSE IF ~Truthy(d.ret) THEN d.c
    ELSE ParamStore(d.c, k, env)

\* the `if name not in kwargs` branch, d the outcome of `not self.default`
Absent(k, env, d) ==
    LET p == d.c.params[k]
    IN  IF ~IsNone(d.c.exc) THEN d.c
        ELSE IF ~Truthy(d.ret)
        THEN IF p.required
             THEN [d.c EXCEPT !.exc =
                       [t |-> "exc", cls |-> "ValueError",
                        msg |-> "is required", name |-> p.name]]
             ELSE d.c
        ELSE ParamStore(d.c, k, env)

ParamSerialize(c, k, env) ==
    IF c.params[k].name \notin DOMAIN c.kw
    THEN Absent(k, env, ParamDefault(c, k, env))
    ELSE ParamStore(c, k, env)

\* for param in self._params: param.serialize(...)
RECURSIVE SerializeParams(_, _, _)
SerializeParams(c, k, env) ==
    IF k > Len(c.params) \/ ~IsNone(c.exc) THEN c
    ELSE SerializeParams(ParamSerialize(c, k, env), k + 1, env)

\* the properties found in the kwargs, in the order of the schema
RECURSIVE Supplied(_, _)
Supplied(props, kwargs) ==
    IF props = <<>> THEN <<>>
    ELSE (IF props[1][1] \in DOMAIN kwargs
          THEN << <<props[1][1], kwargs[props[1][1]]>> >> ELSE <<>>)
         \o Supplied(Tail(props), kwargs)

ValidationError == AlmdrlibValueError("validation failed. Schema")

\* RequestBodyObjectParameter.serialize from the required check on, res the
\* dict `result` popped from the kwargs
ObjectDump(bp, kwargs, res) ==
    LET kw1 == [x \in DOMAIN kwargs \ PropNames(res) |-> kwargs[x]]
    IN  IF bp.required /\ res = <<>>
        THEN [kw |-> kw1,
              exc |-> AlmdrlibValueError("At least one must be specified")]
        ELSE IF ~Validates(bp.schema, DictV(res))
        THEN [kw |-> kw1, exc |-> ValidationError]
        ELSE IF bp.explode
        THEN IF bp.name \in PropNames(res)
             THEN [kw |-> Put(kw1, DATA,
                              StrV(JsonDumps(PropSchema(res, bp.name)))),
                   exc |-> NoneV]
             ELSE [kw |-> kw1, exc |-> Exc("KeyError", "name")]
        ELSE [kw |-> Put(kw1, DATA,
                         StrV(JsonDumps(DictV(<< <<bp.name, DictV(res)>> >>)))),
              exc |-> NoneV]

\* RequestBodyObjectParameter.serialize(kwargs): [kw, exc]
ObjectSerialize(bp, kwargs) ==
    IF \E i \in 1..Len(bp.required_properties) :
            bp.required_properties[i] \notin DOMAIN kwargs
    THEN [kw |-> kwargs, exc |-> AlmdrlibValueError("parameters are required")]
    ELSE ObjectDump(bp, kwargs, Supplied(bp.properties, kwargs))

\* RequestBodySimpleParameter.serialize(kwargs): [kw, exc]
SimpleSerialize(bp, kwargs) ==
    LET data == IF bp.name \in DOMAIN kwargs THEN kwargs[bp.name] ELSE StrV(<<>>)
        kw1 == Without(kwargs, bp.name)
    IN  IF bp.format = "binary"
        THEN IF data.t = "str"
             THEN [kw |-> Put(kw1, DATA, BytesV(data.s)), exc |-> NoneV]
             ELSE [kw |-> kw1,
                   exc |-> Exc("AttributeError", "object has no attribute 'encode'")]
        ELSE [kw |-> Put(kw1, DATA, data), exc |-> NoneV]

\* RequestBodySchemaParameter.serialize(kwargs): [kw, exc]
SchemaSerialize(bp, kwargs) ==
    LET data == IF bp.name \in DOMAIN kwargs THEN kwargs[bp.name] ELSE DictV(<<>>)
        kw1 == Without(kwargs, bp.name)
    IN  IF ~Validates(bp.schema, data)
        THEN [kw |-> kw1, exc |-> ValidationError]
        ELSE [kw |-> Put(kw1, DATA, StrV(JsonDumps(data))), exc |-> NoneV]

BodyParamSerialize(bp, kwargs) ==
    CASE bp.cls = "Object" -> ObjectSerialize(bp, kwargs)
      [] bp.cls = "Simple" -> SimpleSerialize(bp, kwargs)
      [] bp.cls = "Schema" -> SchemaSerialize(bp, kwargs)

HasContent(content, ct) == \E i \in 1..Len(content) : content[i][1] = ct
ContentOf(content, ct) ==
    content[CHOOSE i \in 1..Len(content) : content[i][1] = ct][2]

ContentTypeRequired == AlmdrlibValueError("'content_type'parameter is required.")

\* RequestBody.serialize(headers, kwargs): [headers, kw, exc, ct] where ct is
\* the content type of the variant that was serialized (<<>> when none was)
Serialized(headers, ct, r) ==
    [headers |-> headers, kw |-> r.kw, exc |-> r.exc, ct |-> ct]

BodySerialize(body, headers, kwargs) ==
    IF H_content_type \in DOMAIN headers
    THEN LET v == headers[H_content_type]
         IN  IF v.t = "str" /\ HasContent(body.content, v.s)
             THEN Serialized(headers, v.s,
                    BodyParamSerialize(ContentOf(body.content, v.s), kwargs))
             ELSE [headers |-> headers, kw |-> kwargs,
                   exc |-> Exc("KeyError", "content_type"), ct |-> <<>>]
    ELSE IF Len(body.content) = 1
    THEN Serialized(Put(headers, H_content_type, StrV(body.content[1][1])),
                    body.content[1][1],
                    BodyParamSerialize(body.content[1][2], kwargs))
    ELSE [headers |-> headers, kw |-> kwargs, exc |-> ContentTypeRequired,
          ct |-> <<>>]

\* keyword names with the internal prefix (k.startswith("_"))
Internal(kwargs) == {k \in DOMAIN kwargs : k[1] = "_"}

\* The loop `for k in kwargs: ... kwargs[k[1:]] = kwargs.pop(k)` changes the
\* dict it iterates over.  Which keys it reaches, and whether the iterator
\* raises RuntimeError, depends on the interpreter's dict layout: u.keys
\* (not empty when there is an internal key) are the keys it unwrapped and
\* u.raise tells whether it raised.
UnwrapChoices(kwargs) ==
    IF Internal(kwargs) = {} THEN {[keys |-> {}, raise |-> FALSE]}
    ELSE {[keys |-> U, raise |-> r] :
            U \in SUBSET Internal(kwargs) \ {{}}, r \in BOOLEAN}

Unwrapped(kwargs, u) ==
    LET U == u.keys \cap DOMAIN kwargs
        kept == [k \in DOMAIN kwargs \ U |-> kwargs[k]]
        moved == [k \in {Tail(x) : x \in U} |->
                    kwargs[CHOOSE x \in U : Tail(x) = k]]
    IN  moved @@ kept

TransportKeys == {K("params"), K("headers"), K("cookies")}

\* Operation.url(path_params): self._server.url + self._path.format(...)
OperationUrl(cl, op, path_params) ==
    IF op.server = 0 THEN [ok |-> FALSE, s |-> <<>>]
    ELSE LET base == ServerUrl(cl.servers[op.server])
             path == Format(op.path, path_params)
         IN  IF base.ok /\ path.ok THEN [ok |-> TRUE, s |-> base.s \o path.s]
             ELSE [ok |-> FALSE, s |-> <<>>]

\* the outcome of one invocation:
\* [s, log, params, b, kw, exc, ret, ct, url]
Outcome(c, ret, ct, url) ==
    [s |-> c.s, log |-> c.log, params |-> c.params, b |-> c.b,
     kw |-> c.kw, exc |-> c.exc, ret |-> ret, ct |-> ct, url |-> url]

\* r is the outcome of self._session.request(...)
Requested(c, ct, url, r) ==
    Outcome([c EXCEPT !.s = r.s, !.log = r.log, !.exc = r.exc], r.ret, ct, url)

\* return self._session.request(self._method, url=self.url(path_params), ...)
\* where url is the outcome of self.url(path_params)
CallRequest(op, c, env, ct, url) ==
    IF ~c.s.present
    THEN Outcome([c EXCEPT !.exc = NoSessionError], NoneV, ct, <<>>)
    ELSE IF ~url.ok
    THEN Outcome([c EXCEPT !.exc =
                    IF op.server = 0
                    THEN Exc("AttributeError",
                             "'NoneType' object has no attribute 'url'")
                    ELSE Exc("KeyError", "format")],
                 NoneV, ct, <<>>)
    ELSE Requested(c, ct, url.s,
            request(c.s, c.log, env, op.method, url.s, c.b.query, c.b.header,
                    c.b.cookie,
                    [k \in DOMAIN c.kw \ TransportKeys |-> c.kw[k]]))

\* the loop over the internal keywords, then the request
CallUnwrap(cl, op, c, env, u, ct) ==
    IF u.raise /\ Internal(c.kw) # {}
    THEN Outcome([c EXCEPT !.kw = Unwrapped(c.kw, u),
                           !.exc = Exc("RuntimeError",
                                "dictionary keys changed during iteration")],
                 NoneV, ct, <<>>)
    ELSE CallRequest(op, [c EXCEPT !.kw = Unwrapped(c.kw, u)], env, ct,
                     OperationUrl(cl, op, c.b.path))

\* bs is the outcome of self._body.serialize(headers, kwargs)
CallBody(cl, op, c, env, u, bs) ==
    IF ~IsNone(bs.exc)
    THEN Outcome([c EXCEPT !.b.header = bs.headers, !.kw = bs.kw,
                           !.exc = bs.exc],
                 NoneV, bs.ct, <<>>)
    ELSE CallUnwrap(cl, op,
                    [c EXCEPT !.b.header = bs.headers, !.kw = bs.kw],
                    env, u, bs.ct)

\* c is the outcome of the loop over self._params
CallParams(cl, op, c, env, u) ==
    IF ~IsNone(c.exc) THEN Outcome(c, NoneV, <<>>, <<>>)
    ELSE CallBody(cl, op, c, env, u,
            IF IsNone(op.body)
            THEN [headers |-> c.b.header, kw |-> c.kw, exc |-> NoneV,
                  ct |-> <<>>]
            ELSE BodySerialize(op.body, c.b.header, c.kw))

\* The function f built by Operation._gen_call, applied to kwargs
Call(cl, op, s, kwargs, env, u) ==
    CallParams(cl, op,
        SerializeParams([s |-> s, log |-> <<>>, params |-> op.params,
                         b |-> EmptyBuckets, kw |-> kwargs, exc |-> NoneV],
                        1, env),
        env, u)

\* CallerMap with the callee working on the caller's own dict
CallerMapShared(kwargs, r) == r.kw

\* Operation.__call__(self, *args, **kwargs) and f(**kwargs): a call with
\* keyword arguments binds kwargs to a new dict, so what f pops and sets
\* happens in r.kw and the map the caller unpacked is left as it was given
CallerMap(kwargs, r) == kwargs

\* RequestBody.get_schema(): ok = FALSE for StopIteration (no content)
BodyGetSchema(body) ==
    IF body.content = <<>> THEN [ok |-> FALSE, properties |-> EmptyMap]
    ELSE LET bp == body.content[1][2]
         IN  [ok |-> TRUE,
              properties |->
                IF bp.cls = "Object"
                THEN [n \in PropNames(bp.properties) |->
                        PropSchema(bp.properties, n)]
                ELSE (bp.name :> bp.schema)]

\* the parameters' schemas by keyword name, later parameters overriding
RECURSIVE ParamsSchema(_, _)
ParamsSchema(params, acc) ==
    IF params = <<>> THEN acc
    ELSE ParamsSchema(Tail(params),
                      Put(acc, params[1].name, ParamSchema(params[1])))

\* Operation.get_schema(): the descriptor, or the exception it raises
get_schema(op) ==
    LET params_schema == ParamsSchema(op.params, EmptyMap)
        bschema == IF IsNone(op.body) THEN [ok |-> TRUE, properties |-> EmptyMap]
                   ELSE BodyGetSchema(op.body)
    IN  IF ~bschema.ok THEN Exc("StopIteration", "")
        ELSE [t |-> "descriptor",
              operationId |-> op.operation_id,
              description |-> op.description,
              parameters |-> Update(params_schema, bschema.properties),
              response |-> op.response.response_schema,
              exceptions |-> EmptyMap]

\* self.servers = [Server(...) for s in servers]: [s, log, ret (Servers), exc]
RECURSIVE InitServers(_, _, _, _, _, _)
RECURSIVE ServersAfter(_, _, _, _, _)
InitServers(s, lg, env, name, specs, variables) ==
    IF specs = <<>> THEN Ret(s, lg, <<>>)
    ELSE ServersAfter(ServerInit(s, lg, env, name, specs[1], variables),
                      env, name, Tail(specs), variables)

\* r is the outcome of the first Server(...), specs the remaining ones
ServersAfter(r, env, name, specs, variables) ==
    IF Raised(r) THEN r
    ELSE LET rest == InitServers(r.s, r.log, env, name, specs, variables)
         IN  IF Raised(rest) THEN rest
             ELSE Ret(rest.s, rest.log, <<r.ret>> \o rest.ret)

\* the choice of self._server in Client.load_spec: the index of the chosen
\* Server, 0 for None, -1 when filter(...)[0] raises IndexError
ChooseServer(s, srvs) ==
    IF srvs = <<>> THEN 0
    ELSE IF s.present
    THEN LET valid == {i \in 1..Len(srvs) : validate_server(s, srvs[i].spec)}
         IN  IF valid = {} THEN -1
             ELSE CHOOSE i \in valid : \A j \in valid : i <= j
    ELSE 1

\* Client.__init__ -> load_service_spec -> load_spec:
\* [s, log, paths, client, exc]
Failed(sv, ps, exc) ==
    [s |-> sv.s, log |-> sv.log, paths |-> ps, exc |-> exc,
     client |-> [state |-> "failed"]]

\* ix is the outcome of self._initialize_operations()
Indexed(sv, server, name, ix) ==
    IF ~IsNone(ix.exc) THEN Failed(sv, ix.paths, ix.exc)
    ELSE [s |-> sv.s, log |-> sv.log, paths |-> ix.paths, exc |-> NoneV,
          client |-> [state |-> "ready", name |-> name, servers |-> sv.ret,
                      server |-> server, operations |-> ix.operations]]

\* sv is the outcome of building self.servers
Loaded(sv, ps, name) ==
    IF Raised(sv) THEN Failed(sv, ps, sv.exc)
    ELSE LET server == ChooseServer(sv.s, sv.ret)
         IN  IF server = -1
             THEN Failed(sv, ps, Exc("IndexError", "list index out of range"))
             ELSE Indexed(sv, server, name,
                          _initialize_operations(ps, server, name))

NewClient(s, env, name, variables, ps0, server_specs) ==
    Loaded(InitServers(s, <<>>, env, name, server_specs, variables),
           _normalize_spec(ps0), name)

---------------------------------------------------------------------------
(* The inputs: documents, sessions, keyword arguments, HTTP responses.     *)

\* bounds of the input families
MaxParams == 2      \* parameters of one operation
MaxContent == 2     \* content types of one request body
MaxOps == 3         \* path/method entries of one document
MaxServers == 2     \* servers of one document
NumCallers == 2     \* callers sharing one client
MaxCalls == 2       \* invocations made by one caller
MaxBranches == 3    \* branches of one allOf

\* all sequences over S of length 1..n
RECURSIVE SeqsUpTo(_, _)
SeqsUpTo(S, n) ==
    IF n = 0 THEN {}
    ELSE {<<x>> : x \in S}
         \cup {Append(q, x) : q \in SeqsUpTo(S, n - 1), x \in S}

N_id == <<"id">>
N_x_id == <<"x", "-", "id">>
N_account_id == <<"account", "_", "id">>
N_x == <<"x">>
N_payload == <<"payload">>
N_content_type == <<"content", "_", "type">>
N_timeout == <<"_", "timeout">>

Locations == {"path", "query", "header", "cookie"}

ParamSpec(name, in, required, type) ==
    [name |-> name, in |-> in, required |-> required, type |-> type,
     style |-> "", explode |-> FALSE]

StyledParamSpec(name, in, required, type, style, explode) ==
    [name |-> name, in |-> in, required |-> required, type |-> type,
     style |-> style, explode |-> explode]

\* every parameter over the names, locations and scalar data types, and the
\* composite ones with their style and explode
ParamSpecs ==
    {ParamSpec(n, l, r, t) : n \in {N_id, N_x_id, N_account_id},
                             l \in Locations, r \in BOOLEAN,
                             t \in {"string", "boolean", "integer"}}
    \cup
    {StyledParamSpec(N_x_id, l, r, t, st, e) :
        l \in Locations, r \in BOOLEAN, t \in {"object", "array"},
        st \in {"form", "pipeDelimited"}, e \in BOOLEAN}

\* the parameters that operations with several parameters draw from
ListParamSpecs ==
    { ParamSpec(N_x_id, "query", TRUE, "string"),
      ParamSpec(N_x_id, "header", FALSE, "string"),
      ParamSpec(N_account_id, "path", TRUE, "string"),
      ParamSpec(N_account_id, "query", FALSE, "string") }

ContentTypeParam == ParamSpec(H_content_type, "header", FALSE, "string")

Responses200 ==
    [t |-> "responses",
     r |-> << << <<"2", "0", "0">>,
                 << <<CT_json, Schema("object", <<>>, <<>>, "")>> >> >> >>]

OpSpec(id, params, body) ==
    [operationId |-> id, summary |-> StrV(<<"summary">>),
     description |-> StrV(<<"description">>), parameters |-> params,
     requestBody |-> body, responses |-> Responses200]

\* the path template naming every path parameter of params
RECURSIVE PathTemplate(_)
PathTemplate(params) ==
    IF params = <<>> THEN <<>>
    ELSE (IF params[1].in = "path"
          THEN <<"/", "{">> \o params[1].name \o <<"}">> ELSE <<>>)
         \o PathTemplate(Tail(params))

OneOpPaths(id, params, body) ==
    << [path |-> <<"/", "v1">> \o PathTemplate(params),
        parameters |-> <<>>,
        methods |-> << [method |-> "post", op |-> OpSpec(id, params, body)] >>] >>

Op_getThing == StrV(<<"getThing">>)
Op_putThing == StrV(<<"putThing">>)

ServerSpec(url, session_endpoint, variables, global_endpoint) ==
    [url |-> url, session_endpoint |-> session_endpoint,
     variables |-> variables, global_endpoint |-> global_endpoint]

U_static == T_https \o <<"api", ".", "example", ".", "com">>
U_template == T_https \o <<"{", "region", "}", ".", "example", ".", "com">>
N_region == <<"region">>

StaticServer == ServerSpec(U_static, FALSE, EmptyMap, NoneV)

\* Session.__init__ / _init_session
NewSession(global_endpoint, endpoint_map, access_key_id, secret_key, aims_token, account, raise_for_status) ==
    [present |-> TRUE,
     global_endpoint |-> global_endpoint,
     global_endpoint_url |-> get_global_endpoint(global_endpoint),
     endpoint_map |-> endpoint_map,
     access_key_id |-> IF Truthy(aims_token) THEN NoneV ELSE access_key_id,
     secret_key |-> IF Truthy(aims_token) THEN NoneV ELSE secret_key,
     token |-> IF Truthy(aims_token) THEN aims_token ELSE NoneV,
     account_id |-> account,
     config_account_id |-> account,
     account_name |-> NoneV, user_id |-> NoneV,
     residency |-> <<"default">>,
     raise_for_status |-> raise_for_status,
     basic_auth |-> FALSE]

NoSession == [present |-> FALSE]

KEY == StrV(<<"key">>)
SECRET == StrV(<<"secret">>)
TOKEN == StrV(<<"tok">>)
ACCOUNT == StrV(<<"1234567">>)
EP_url == T_http \o <<"api", ".", "aesolo", ".", "com", ":", "8100">>
EndpointMap == DictV(<< <<ServiceName, StrV(U_static)>> >>)

\* a session holding a token and an account id: it never authenticates
S_ready == NewSession(EP_production, NoneV, NoneV, NoneV, TOKEN, ACCOUNT, TRUE)
\* a session with credentials that has not authenticated yet
S_fresh == NewSession(EP_production, NoneV, KEY, SECRET, NoneV, NoneV, TRUE)
\* a session told to skip authentication
S_skip == NewSession(EP_production, NoneV, SKIP, SKIP, NoneV, NoneV, TRUE)
\* ... and one told to skip it that was given an account id
S_skip_account == NewSession(EP_production, NoneV, SKIP, SKIP, NoneV, ACCOUNT, TRUE)

\* the responses of the HTTP layer during one operation, restricted to the
\* calls a session in state s can make
Envs(s) ==
    LET mayAuth == s.present /\ (IsNone(s.token) \/ IsNone(s.account_id))
        a0 == CHOOSE a \in AuthResponses : a.status = 401
        t0 == CHOOSE x \in TokenInfoResponses : x.status = 401
    IN  {[authenticate |-> a, token_info |-> x, request |-> r] :
            a \in (IF mayAuth THEN AuthResponses ELSE {a0}),
            x \in (IF mayAuth /\ Truthy(s.token) THEN TokenInfoResponses ELSE {t0}),
            r \in (IF s.present THEN ApiResponses ELSE {Response(200, DictV(<<>>))})}

\* the responses of the HTTP layer to a session that is called directly
AllEnvs ==
    {[authenticate |-> a, token_info |-> x, request |-> r] :
        a \in AuthResponses, x \in TokenInfoResponses, r \in ApiResponses}

\* the headers a caller passes to Session.request
CallerHeaders == {EmptyMap, (H_token :> StrV(<<"mine">>))}

\* the values a caller passes for a keyword
ArgValues(type) ==
    CASE type = "string" -> {StrV(<<"abc">>)}
      [] type = "boolean" -> {BoolV(TRUE), BoolV(FALSE)}
      [] type = "integer" -> {IntV(7)}
      [] type = "object" -> {DictV(<< <<K("a"), IntV(1)>>, <<K("b"), IntV(2)>> >>)}
      [] type = "array" -> {ListV(<<IntV(1), IntV(2), IntV(3)>>)}

BodyObject == DictV(<< <<N_x, IntV(1)>> >>)

\* the keywords a caller may pass to an operation, each with its values
RECURSIVE ParamArgs(_)
ParamArgs(params) ==
    IF params = <<>> THEN EmptyMap
    ELSE LET rest == ParamArgs(Tail(params))
             k == params[1].name
             vs == IF k = N_content_type THEN {StrV(CT_json), StrV(CT_text)}
                   ELSE ArgValues(params[1].datatype)
         IN  IF k \in DOMAIN rest THEN Put(rest, k, rest[k] \cup vs)
             ELSE Put(rest, k, vs)

\* the keywords of a request body: its property names and payload names,
\* `data`, and `content_type`
BodyKeys(body) ==
    UNION {IF body.content[i][2].cls = "Object"
           THEN PropNames(body.content[i][2].properties)
           ELSE {body.content[i][2].name} : i \in 1..Len(body.content)}
    \cup {DATA, N_content_type}

BodyArgs(body) ==
    IF IsNone(body) THEN EmptyMap
    ELSE [k \in BodyKeys(body) |->
            IF k = N_x THEN {IntV(1), StrV(<<"one">>)}
            ELSE IF k = N_content_type THEN {StrV(CT_text)}
            ELSE {BodyObject, StrV(<<"abc">>)}]

\* an operation without parameters and body is also given a transport option
\* under the internal prefix
OpArgs(op) ==
    LET pa == ParamArgs(op.params)
        ba == BodyArgs(op.body)
        ia == IF op.params = <<>> /\ IsNone(op.body)
              THEN (N_timeout :> {IntV(5)}) ELSE EmptyMap
    IN  [k \in DOMAIN pa \cup DOMAIN ba \cup DOMAIN ia |->
            (IF k \in DOMAIN pa THEN pa[k] ELSE {})
            \cup (IF k \in DOMAIN ba THEN ba[k] ELSE {})
            \cup (IF k \in DOMAIN ia THEN ia[k] ELSE {})]

\* every kwargs map that gives some of the keywords one of their values
RECURSIVE KwargsOver(_, _)
KwargsOver(args, keys) ==
    IF keys = {} THEN {EmptyMap}
    ELSE LET k == CHOOSE x \in keys : TRUE
             rest == KwargsOver(args, keys \ {k})
         IN  rest \cup {Put(m, k, v) : m \in rest, v \in args[k]}

Kwargs(op) == KwargsOver(OpArgs(op), DOMAIN OpArgs(op))

---------------------------------------------------------------------------
(* Documents *)

ParamLists ==
    {<<>>} \cup {<<p>> : p \in ParamSpecs}
    \cup {q \in SeqsUpTo(ListParamSpecs, MaxParams) : Len(q) >= 2}

AlSchema(name, explode) == [name |-> name, explode |-> explode]

S_integer == Schema("integer", <<>>, <<>>, "")
S_obj_x == Schema("object", << <<N_x, S_integer>> >>, <<>>, "")
S_obj_x_req == Schema("object", << <<N_x, S_integer>> >>, <<N_x>>, "")
S_obj_free == Schema("object", <<>>, <<>>, "")
S_str == Schema("string", <<>>, <<>>, "")
S_bin == Schema("string", <<>>, <<>>, "binary")
S_arr == Schema("array", <<>>, <<>>, "")

\* the content-type entries of a request body with one content type
ContentSpecs ==
    {[schema |-> sc, al_schema |-> AlSchema(n, e)] :
        sc \in {S_obj_x, S_obj_x_req, S_obj_free, S_str, S_bin, S_arr, EmptySchema},
        n \in {<<>>, N_payload}, e \in BOOLEAN}

\* ... and of a request body with several
ListContentSpecs ==
    {[schema |-> sc, al_schema |-> AlSchema(<<>>, FALSE)] : sc \in {S_obj_x, S_str}}

Distinct(q) == \A i, j \in 1..Len(q) : i # j => q[i][1] # q[j][1]

Contents ==
    {<< <<ct, c>> >> : ct \in {CT_json, CT_text}, c \in ContentSpecs}
    \cup {q \in SeqsUpTo({CT_json, CT_text, CT_al_json} \X ListContentSpecs,
                         MaxContent) : Len(q) >= 2 /\ Distinct(q)}

BodySpec(required, content) ==
    [t |-> "bodyspec", required |-> required,
     description |-> StrV(<<"body">>), content |-> content]

BodySpecs == {BodySpec(r, c) : r \in BOOLEAN, c \in Contents}

\* documents of one operation with parameters
ParamDocs == {OneOpPaths(Op_getThing, ps, NoneV) : ps \in ParamLists}

\* documents of one operation with a request body
BodyDocs ==
    {OneOpPaths(Op_putThing, ps, b) :
        ps \in {<<>>, <<ContentTypeParam>>}, b \in BodySpecs}

\* documents of several path/method entries: every way to fill at most
\* MaxOps of the slots, two paths with two methods each
IndexPaths == << <<"/", "things">>, <<"/", "things", "/", "{", "id", "}">> >>
IndexMethods == <<"get", "put">>
IndexOps ==
    {OpSpec(id, ps, b) :
        id \in {Op_getThing, Op_putThing, NoneV},
        ps \in {<< ParamSpec(N_account_id, "query", FALSE, "string") >>},
        b \in {NoneV}}

Slots == {1, 2} \X {1, 2}

\* the path item i of a filling f (a function from the used slots to ops)
PathItemOf(f, i) ==
    LET ms == {j \in {1, 2} : <<i, j>> \in DOMAIN f}
        ordered == IF ms = {1, 2} THEN <<1, 2>>
                   ELSE IF ms = {1} THEN <<1>> ELSE <<2>>
    IN  [path |-> IndexPaths[i],
         parameters |-> IF i = 2 THEN << ParamSpec(N_id, "path", TRUE, "string") >>
                        ELSE <<>>,
         methods |-> [k \in 1..Len(ordered) |->
                        [method |-> IndexMethods[ordered[k]],
                         op |-> f[<<i, ordered[k]>>]]]]

PathsOf(f) ==
    LET used == {i \in {1, 2} : \E j \in {1, 2} : <<i, j>> \in DOMAIN f}
    IN  IF used = {1, 2} THEN <<PathItemOf(f, 1), PathItemOf(f, 2)>>
        ELSE IF used = {1} THEN <<PathItemOf(f, 1)>>
        ELSE <<PathItemOf(f, 2)>>

IndexDocs ==
    {PathsOf(f) : f \in UNION {[D -> IndexOps] :
                    D \in {X \in SUBSET Slots : X # {} /\ Cardinality(X) <= MaxOps}}}

\* the servers lists
ServerSpecs ==
    {ServerSpec(u[1], se, u[2], ge) :
        u \in {<<U_static, EmptyMap>>, <<U_template, (N_region :> StrV(<<"us">>))>>,
               <<U_template, EmptyMap>>},
        se \in BOOLEAN, ge \in {NoneV, StrV(EP_integration)}}

\* the variables a caller passes to Client(...): none, a value for the
\* variable of the template, a value for another name only.  They are passed
\* for documents whose servers have a template.
N_zone == <<"zone">>
CallerVariables(specs) ==
    IF \E i \in 1..Len(specs) : \E j \in 1..Len(specs[i].url) : specs[i].url[j] = "{"
    THEN {EmptyMap, (N_region :> StrV(<<"eu">>)), (N_zone :> StrV(<<"eu">>))}
    ELSE {EmptyMap}

\* the servers that lists of several servers draw from
ListServerSpecs ==
    {ServerSpec(U_static, se, EmptyMap, ge) :
        se \in BOOLEAN, ge \in {NoneV, StrV(EP_integration)}}

ServerLists ==
    {<<>>} \cup {<<x>> : x \in ServerSpecs}
    \cup {q \in SeqsUpTo(ListServerSpecs, MaxServers) : Len(q) >= 2}

Sessions ==
    {NewSession(ep, IF ep = EP_map THEN EndpointMap ELSE NoneV, KEY, SECRET,
                tok, acc, TRUE) :
        ep \in {EP_production, EP_integration, EP_map, EP_url},
        tok \in {NoneV, TOKEN}, acc \in {NoneV, ACCOUNT}}

TrivialDoc == OneOpPaths(Op_getThing, <<>>, NoneV)

---------------------------------------------------------------------------
(* The state machine *)

ClientName == ServiceName

(***************************************************************************)
(* The spec document as _normalize_spec works on it: yaml gives mappings   *)
(* and lists that are Python objects, changed in place and shared by       *)
(* every place that holds them.  h is the heap: the object at address a    *)
(* is h[a]; a mapping holds <<key, address>> pairs in insertion order, a   *)
(* list holds addresses, a scalar is a value.  st = [h, cache, exc] is the *)
(* state a resolution threads through its steps.                           *)
(***************************************************************************)
Mapping(d) == [t |-> "mapping", d |-> d]
Array(l) == [t |-> "array", l |-> l]
IsMapping(c) == c.t = "mapping"
IsArray(c) == c.t = "array"
MKeys(c) == {c.d[i][1] : i \in 1..Len(c.d)}
MGet(c, k) == c.d[CHOOSE i \in 1..Len(c.d) : c.d[i][1] = k][2]
\* d.pop(k)
MPop(c, k) == Mapping(SelectSeq(c.d, LAMBDA p : p[1] # k))
\* d[k] = a for a key d does not have
MAdd(c, k, a) == Mapping(Append(c.d, <<k, a>>))

REF == K("$ref")
ALL_OF == K("allOf")
PATHS == K("paths")
PARAMETERS == K("parameters")

Broke(st) == ~IsNone(st.exc)
Res(st, a) == [st |-> st, ret |-> a]
Throw(st, exc) == Res([st EXCEPT !.exc = exc], 0)
\* a new object
New(st, c) == Res([st EXCEPT !.h = Append(@, c)], Len(st.h) + 1)

\* the iteration order of a set of strings: the members in the order the
\* hash table holds them.  order is a sequence of all the strings there are.
SetOrder(S, order) == SelectSeq(order, LAMBDA x : x \in S)

\* str.split(sep) on a string of tokens
RECURSIVE SplitFrom(_, _, _, _)
SplitFrom(s, sep, i, cur) ==
    IF i > Len(s) THEN <<cur>>
    ELSE IF s[i] = sep THEN <<cur>> \o SplitFrom(s, sep, i + 1, <<>>)
    ELSE SplitFrom(s, sep, i + 1, Append(cur, s[i]))
Split(s, sep) == SplitFrom(s, sep, 1, <<>>)

\* fragment.lstrip("/")
RECURSIVE LStrip(_, _)
LStrip(s, c) == IF s # <<>> /\ s[1] = c THEN LStrip(Tail(s), c) ELSE s

\* jsonschema.RefResolver.resolve_fragment(document, fragment): the parts of
\* the pointer are looked up one after the other (the documents have no
\* pointer into a list).  0: unresolvable.
RECURSIVE Walk(_, _, _)
Walk(h, a, parts) ==
    IF parts = <<>> THEN a
    ELSE IF IsMapping(h[a]) /\ parts[1] \in MKeys(h[a])
    THEN Walk(h, MGet(h[a], parts[1]), Tail(parts))
    ELSE 0
resolve_fragment(h, root, fragment) ==
    Walk(h, root,
         IF LStrip(fragment, "/") = <<>> THEN <<>>
         ELSE Split(LStrip(fragment, "/"), "/"))

RefResolutionError == Exc("RefResolutionError", <<"Unresolvable">>)

\* jsonschema.RefResolver.resolve_from_url(url) for a url of the document
\* itself ("#" and a pointer); other documents are not fetched here.
resolve_from_url(st, root, url) ==
    IF url = <<>> \/ url[1] # "#" THEN 0
    ELSE resolve_fragment(st.h, root, Tail(url))

\* the target found is kept in RefResolver's lru_cache
Cached(st, url, a) ==
    IF a = 0 THEN Throw(st, RefResolutionError)
    ELSE Res([st EXCEPT !.cache = Put(@, url, a)], a)

\* `with resolver.resolving(ref) as resolved`: RefResolver.resolve goes
\* through the cache of resolve_from_url
resolving(st, root, ref) ==
    IF ref \in DOMAIN st.cache THEN Res(st, st.cache[ref])
    ELSE Cached(st, ref, resolve_from_url(st, root, ref))

TypeError(msg) == Exc("TypeError", msg)
AttributeError(msg) == Exc("AttributeError", msg)

\* the first object among `items` that has the value v
FirstWith(h, items, v) ==
    items[CHOOSE i \in 1..Len(items) :
              /\ h[items[i]] = v
              /\ \A j \in 1..(i - 1) : h[items[j]] # v]

\* list(set(items)) for the items of target + source: the items must be
\* hashable; one item is kept for each value, in the order of the set
ListOfSet(st, items, values) ==
    IF \E i \in 1..Len(items) : st.h[items[i]].t \in {"mapping", "array"}
    THEN Throw(st, TypeError(<<"unhashable">>))
    ELSE New(st, Array([i \in 1..Len(values) |->
                           FirstWith(st.h, items, StrV(values[i]))]))

\* list(set(target[k] + source[k]))
UnionList(st, ta, sa, order) ==
    ListOfSet(st, st.h[ta].l \o st.h[sa].l,
              SetOrder({st.h[(st.h[ta].l \o st.h[sa].l)[i]].s :
                           i \in {n \in 1..Len(st.h[ta].l \o st.h[sa].l) :
                                     st.h[(st.h[ta].l \o st.h[sa].l)[n]].t = "str"}},
                       order))

\* dict(deep_merge(target, source)): deep_merge yields one pair for each key
\* of the union of the keys, in the order of that set
RECURSIVE MergeKeys(_, _, _, _, _, _)
MergedDict(st, ta, sa, order) ==
    IF ~IsMapping(st.h[ta])
    THEN Throw(st, AttributeError(<<"keys">>))
    ELSE IF ~IsMapping(st.h[sa])
    THEN Throw(st, AttributeError(<<"keys">>))
    ELSE MergeKeys(st, ta, sa,
                   SetOrder(MKeys(st.h[ta]) \cup MKeys(st.h[sa]), order),
                   <<>>, order)

\* the pair deep_merge yields for key k, added to acc: r is [st, ret], the
\* value and the state after it was made
Yielded(r, ta, sa, keys, acc, order) ==
    IF Broke(r.st) THEN r
    ELSE MergeKeys(r.st, ta, sa, Tail(keys),
                   Append(acc, <<keys[1], r.ret>>), order)

\* the value deep_merge yields for a key that both mappings have
Both(st, tv, sv, order) ==
    IF IsMapping(st.h[tv]) /\ IsMapping(st.h[sv])
    THEN MergedDict(st, tv, sv, order)
    ELSE IF IsArray(st.h[tv]) /\ IsArray(st.h[sv])
    THEN UnionList(st, tv, sv, order)
    ELSE Res(st, tv)

MergeKeys(st, ta, sa, keys, acc, order) ==
    IF keys = <<>> THEN New(st, Mapping(acc))
    ELSE IF keys[1] \in MKeys(st.h[ta]) /\ keys[1] \in MKeys(st.h[sa])
    THEN Yielded(Both(st, MGet(st.h[ta], keys[1]), MGet(st.h[sa], keys[1]),
                      order),
                 ta, sa, keys, acc, order)
    ELSE IF keys[1] \in MKeys(st.h[ta])
    THEN Yielded(Res(st, MGet(st.h[ta], keys[1])), ta, sa, keys, acc, order)
    ELSE Yielded(Res(st, MGet(st.h[sa], keys[1])), ta, sa, keys, acc, order)

\* dict(reduce(deep_merge, branches)).  deep_merge is a generator function:
\* reduce calls it without running it, so with three branches or more the
\* target of the last call is the generator of the one before, and running
\* it fails at target.keys().
Reduced(st, bs, order) ==
    IF Len(bs) = 0
    THEN Throw(st, TypeError(<<"reduce() of empty sequence">>))
    ELSE IF Len(bs) = 1
    THEN IF IsMapping(st.h[bs[1]])
         THEN New(st, Mapping(st.h[bs[1]].d))
         ELSE Throw(st, TypeError(<<"dict">>))
    ELSE IF Len(bs) = 2
    THEN MergedDict(st, bs[1], bs[2], order)
    ELSE Throw(st, AttributeError(<<"keys">>))

\* update_dict_no_replace(target, source): r is [st, ret], source is r.ret
update_dict_no_replace(r, a) ==
    IF Broke(r.st) THEN r.st
    ELSE [r.st EXCEPT !.h[a] =
             Mapping(@.d \o SelectSeq(r.st.h[r.ret].d,
                                      LAMBDA p : p[1] \notin MKeys(r.st.h[a])))]

\* node.pop('allOf')
PoppedAllOf(st, a) == [st EXCEPT !.h[a] = MPop(@, ALL_OF)]

\* _normalize_node(node)
_normalize_node(st, a, order) ==
    IF Broke(st) THEN st
    ELSE IF ALL_OF \notin MKeys(st.h[a]) THEN st
    ELSE update_dict_no_replace(
             Reduced(PoppedAllOf(st, a),
                     IF IsArray(st.h[MGet(st.h[a], ALL_OF)])
                     THEN st.h[MGet(st.h[a], ALL_OF)].l ELSE <<>>,
                     order),
             a)

RECURSIVE _do_resolve(_, _, _, _)
RECURSIVE ResolveItems(_, _, _, _, _)
RECURSIVE ResolveElems(_, _, _, _, _)

\* node[k] = _do_resolve(v)
StoreItem(r, a, i) ==
    IF Broke(r.st) THEN r.st ELSE [r.st EXCEPT !.h[a].d[i][2] = r.ret]
\* node[i] = _do_resolve(node[i])
StoreElem(r, a, i) ==
    IF Broke(r.st) THEN r.st ELSE [r.st EXCEPT !.h[a].l[i] = r.ret]

\* for k, v in node.items(): node[k] = _do_resolve(v), from item i on
ResolveItems(st, root, a, i, order) ==
    IF i > Len(st.h[a].d) THEN st
    ELSE CHOOSE out \in
             {IF Broke(r.st) THEN r.st
              ELSE ResolveItems(StoreItem(r, a, i), root, a, i + 1, order) :
                 r \in {_do_resolve(st, root, st.h[a].d[i][2], order)}} : TRUE

\* for i in range(len(node)): node[i] = _do_resolve(node[i]), from i on
ResolveElems(st, root, a, i, order) ==
    IF i > Len(st.h[a].l) THEN st
    ELSE CHOOSE out \in
             {IF Broke(r.st) THEN r.st
              ELSE ResolveElems(StoreElem(r, a, i), root, a, i + 1, order) :
                 r \in {_do_resolve(st, root, st.h[a].l[i], order)}} : TRUE

\* _resolve_refs._do_resolve(node): a mapping with $ref is replaced by what
\* the reference resolves to, as it is; any other mapping and any list is
\* gone through in place
_do_resolve(st, root, a, order) ==
    CASE IsMapping(st.h[a]) /\ REF \in MKeys(st.h[a]) ->
            resolving(st, root, st.h[MGet(st.h[a], REF)].s)
      [] IsMapping(st.h[a]) /\ REF \notin MKeys(st.h[a]) ->
            CHOOSE r \in {Res(_normalize_node(s, a, order), a) :
                             s \in {ResolveItems(st, root, a, 1, order)}} : TRUE
      [] IsArray(st.h[a]) ->
            CHOOSE r \in {Res(s, a) :
                             s \in {ResolveElems(st, root, a, 1, order)}} : TRUE
      [] OTHER -> Res(st, a)

\* _resolve_refs(file_uri, spec)
_resolve_refs(h, root, order) ==
    _do_resolve([h |-> h, cache |-> EmptyMap, exc |-> NoneV], root, root, order)


KeyError(msg) == Exc("KeyError", msg)

\* method['parameters'].extend(parameters)
Extended(st, m, items) ==
    IF ~IsArray(st.h[MGet(st.h[m], PARAMETERS)])
    THEN [st EXCEPT !.exc = AttributeError(<<"extend">>)]
    ELSE [st EXCEPT !.h[MGet(st.h[m], PARAMETERS)].l = @ \o items]

\* method.setdefault('parameters', []): r is the new list
WithParameters(r, m) == [r.st EXCEPT !.h[m] = MAdd(@, PARAMETERS, r.ret)]
SetDefault(st, m) ==
    IF PARAMETERS \in MKeys(st.h[m]) THEN st
    ELSE WithParameters(New(st, Array(<<>>)), m)

\* for method in path.values(): ...
RECURSIVE EachMethod(_, _, _, _)
EachMethod(st, p, j, items) ==
    IF Broke(st) THEN st
    ELSE IF j > Len(st.h[p].d) THEN st
    ELSE IF ~IsMapping(st.h[st.h[p].d[j][2]])
    THEN [st EXCEPT !.exc = AttributeError(<<"setdefault">>)]
    ELSE EachMethod(Extended(SetDefault(st, st.h[p].d[j][2]),
                             st.h[p].d[j][2], items),
                    p, j + 1, items)

\* parameters = path.pop('parameters', []) and the loop over the methods
PathItem(st, p) ==
    IF ~IsMapping(st.h[p])
    THEN [st EXCEPT !.exc = AttributeError(<<"pop">>)]
    ELSE IF PARAMETERS \notin MKeys(st.h[p])
    THEN EachMethod(st, p, 1, <<>>)
    ELSE EachMethod([st EXCEPT !.h[p] = MPop(@, PARAMETERS)], p, 1,
                    IF IsArray(st.h[MGet(st.h[p], PARAMETERS)])
                    THEN st.h[MGet(st.h[p], PARAMETERS)].l ELSE <<>>)

\* for path in spec['paths'].values(): ...
RECURSIVE EachPath(_, _, _)
EachPath(st, ps, i) ==
    IF Broke(st) THEN st
    ELSE IF i > Len(st.h[ps].d) THEN st
    ELSE EachPath(PathItem(st, st.h[ps].d[i][2]), ps, i + 1)

\* the loop of _normalize_spec over what _resolve_refs returned
PathParameters(r) ==
    IF Broke(r.st) THEN r.st
    ELSE IF ~IsMapping(r.st.h[r.ret]) \/ PATHS \notin MKeys(r.st.h[r.ret])
    THEN [r.st EXCEPT !.exc = KeyError(PATHS)]
    ELSE EachPath(r.st, MGet(r.st.h[r.ret], PATHS), 1)

\* _normalize_spec(spec_file_path, spec) on the loaded document
NormalizedDocument(h, root, order) ==
    PathParameters(_resolve_refs(h, root, order))

\* yaml.load: the objects of a document given as a value; r is [h, ret]
RECURSIVE Alloc(_, _)
RECURSIVE AllocPairs(_, _, _)
RECURSIVE AllocItems(_, _, _)
AllocPairs(h, d, acc) ==
    IF d = <<>> THEN [h |-> Append(h, Mapping(acc)), ret |-> Len(h) + 1]
    ELSE CHOOSE out \in
             {AllocPairs(r.h, Tail(d), Append(acc, <<d[1][1], r.ret>>)) :
                 r \in {Alloc(h, d[1][2])}} : TRUE
AllocItems(h, l, acc) ==
    IF l = <<>> THEN [h |-> Append(h, Array(acc)), ret |-> Len(h) + 1]
    ELSE CHOOSE out \in
             {AllocItems(r.h, Tail(l), Append(acc, r.ret)) :
                 r \in {Alloc(h, l[1])}} : TRUE
Alloc(h, v) ==
    CASE v.t = "dict" -> AllocPairs(h, v.d, <<>>)
      [] v.t = "list" -> AllocItems(h, v.l, <<>>)
      [] OTHER -> [h |-> Append(h, v), ret |-> Len(h) + 1]

\* the value of the object at address a, to the given depth
RECURSIVE Value(_, _, _)
Value(h, a, depth) ==
    IF depth = 0 THEN [t |-> "deeper"]
    ELSE IF IsMapping(h[a])
    THEN DictV([i \in 1..Len(h[a].d) |->
                   <<h[a].d[i][1], Value(h, h[a].d[i][2], depth - 1)>>])
    ELSE IF IsArray(h[a])
    THEN ListV([i \in 1..Len(h[a].l) |-> Value(h, h[a].l[i], depth - 1)])
    ELSE h[a]

NoDocument == [state |-> "none"]
\* the document as loaded from its file
LoadedAs(v, r) ==
    [state |-> "loaded", src |-> v, h |-> r.h, root |-> r.ret, exc |-> NoneV]
LoadedDocument(v) == LoadedAs(v, Alloc(<<>>, v))

---------------------------------------------------------------------------
(* Client.load_spec on the objects of the document: what indexing reads    *)
(* from them and pops out of them.  ix is [st, operations]: the objects    *)
(* and the index built so far.                                             *)

OPENAPI == K("openapi")
INFO == K("info")
OPERATION_ID == K("operationId")
SUMMARY == K("summary")
DESCRIPTION == K("description")
REQUEST_BODY == K("requestBody")
RESPONSES == K("responses")
CONTENT == K("content")
SCHEMA == K("schema")
X_ALERTLOGIC_SCHEMA == K("x-alertlogic-schema")

ValueError(msg) == Exc("ValueError", msg)
RecursionError == Exc("RecursionError", <<"maximum recursion depth exceeded">>)

\* the objects that can be reached from the object a, a included
RECURSIVE Below(_, _)
Below(h, seen) ==
    IF UNION {IF IsMapping(h[a]) THEN {h[a].d[i][2] : i \in 1..Len(h[a].d)}
              ELSE IF IsArray(h[a]) THEN {h[a].l[i] : i \in 1..Len(h[a].l)}
              ELSE {} : a \in seen} \subseteq seen
    THEN seen
    ELSE Below(h, seen \cup
                  UNION {IF IsMapping(h[a]) THEN {h[a].d[i][2] : i \in 1..Len(h[a].d)}
                         ELSE IF IsArray(h[a]) THEN {h[a].l[i] : i \in 1..Len(h[a].l)}
                         ELSE {} : a \in seen})

\* a mapping or a list under a holds itself, directly or through others
Circular(h, a) ==
    \E b \in Below(h, {a}) :
        /\ IsMapping(h[b]) \/ IsArray(h[b])
        /\ b \in Below(h, IF IsMapping(h[b])
                          THEN {h[b].d[i][2] : i \in 1..Len(h[b].d)}
                          ELSE {h[b].l[i] : i \in 1..Len(h[b].l)})

\* json.dumps(obj), obj None (address 0) or an object of the document: the
\* encoder raises ValueError when a container is met inside itself
Dumped(st, a) ==
    IF a # 0 /\ Circular(st.h, a)
    THEN [st EXCEPT !.exc = ValueError(<<"Circular reference detected">>)]
    ELSE st

\* d.pop(k, None): [st, ret], ret 0 for None
Popped(st, a, k) ==
    IF k \in MKeys(st.h[a])
    THEN Res([st EXCEPT !.h[a] = MPop(@, k)], MGet(st.h[a], k))
    ELSE Res(st, 0)

\* `not x` for None (address 0) and for an object
Falsy(h, a) ==
    \/ a = 0
    \/ IsMapping(h[a]) /\ h[a].d = <<>>
    \/ IsArray(h[a]) /\ h[a].l = <<>>
    \/ h[a].t = "str" /\ h[a].s = <<>>

\* OperationResponse._add_response(content): the response schema after it,
\* acc the one before; 0 is None, -1 the class attribute {}
_add_response(h, content, acc) ==
    IF Falsy(h, content) THEN acc
    ELSE IF ~IsMapping(h[content]) THEN acc
    ELSE IF Falsy(h, h[content].d[1][2]) THEN acc
    ELSE IF ~IsMapping(h[h[content].d[1][2]]) THEN acc
    ELSE IF SCHEMA \in MKeys(h[h[content].d[1][2]])
    THEN MGet(h[h[content].d[1][2]], SCHEMA)
    ELSE 0

\* for r_code, r_schema in schema.items(): [st, ret], ret the response schema
RECURSIVE EachResponse(_, _, _, _)
EachResponse(st, a, i, acc) ==
    CASE i > Len(st.h[a].d) -> Res(st, acc)
      [] i <= Len(st.h[a].d) /\ st.h[a].d[i][1] = <<>> ->
            Throw(st, Exc("IndexError", <<"string index out of range">>))
      [] i <= Len(st.h[a].d) /\ st.h[a].d[i][1] # <<>>
            /\ st.h[a].d[i][1][1] # "2" ->
            EachResponse(st, a, i + 1, acc)
      [] i <= Len(st.h[a].d) /\ st.h[a].d[i][1] # <<>>
            /\ st.h[a].d[i][1][1] = "2"
            /\ ~IsMapping(st.h[st.h[a].d[i][2]]) ->
            Throw(st, AttributeError(<<"pop">>))
      [] OTHER ->
            CHOOSE out \in
                {EachResponse(r.st, a, i + 1, _add_response(r.st.h, r.ret, acc)) :
                    r \in {Popped(st, st.h[a].d[i][2], CONTENT)}} : TRUE

\* OperationResponse.__init__(schema): the debug message is formatted with
\* json.dumps(schema) before anything else
ResponseInit(st, a) ==
    CASE Broke(st) -> Res(st, 0)
      [] ~Broke(st) /\ Broke(Dumped(st, a)) -> Res(Dumped(st, a), 0)
      [] ~Broke(st) /\ ~Broke(Dumped(st, a)) /\ a = 0 ->
            Throw(st, AttributeError(<<"items">>))
      [] ~Broke(st) /\ ~Broke(Dumped(st, a)) /\ a # 0 /\ ~IsMapping(st.h[a]) ->
            Throw(st, AttributeError(<<"items">>))
      [] OTHER -> EachResponse(st, a, 1, -1)

\* RequestBodyParameter.__init__: validator_cls.check_schema(schema) applies
\* the metaschema to the schema and, through `properties`, to every schema
\* below it; on a schema that holds itself the descent ends with
\* RecursionError
check_schema(st, a) ==
    IF Circular(st.h, a) THEN [st EXCEPT !.exc = RecursionError] ELSE st

\* RequestBody.add_content(content_type, schema, al_schema)
AddedContent(st, schema) ==
    IF Falsy(st.h, schema) THEN st ELSE check_schema(st, schema)

\* for content_type, content_schema in content.items(): [st, ret], ret the
\* schemas of the body's content types
RECURSIVE EachContent(_, _, _, _)
EachContent(st, c, i, acc) ==
    CASE Broke(st) -> Res(st, acc)
      [] ~Broke(st) /\ i > Len(st.h[c].d) -> Res(st, acc)
      [] ~Broke(st) /\ i <= Len(st.h[c].d)
            /\ ~IsMapping(st.h[st.h[c].d[i][2]]) ->
            Throw(st, AttributeError(<<"pop">>))
      [] ~Broke(st) /\ i <= Len(st.h[c].d)
            /\ IsMapping(st.h[st.h[c].d[i][2]])
            /\ SCHEMA \notin MKeys(st.h[st.h[c].d[i][2]]) ->
            Throw(st, KeyError(SCHEMA))
      [] OTHER ->
            CHOOSE out \in
                {EachContent(AddedContent(Popped(r.st, st.h[c].d[i][2],
                                                X_ALERTLOGIC_SCHEMA).st, r.ret),
                             c, i + 1, Append(acc, r.ret)) :
                    r \in {Popped(st, st.h[c].d[i][2], SCHEMA)}} : TRUE

\* Client._initalize_request_body(body_spec): [st, ret]
BodyContent(r) ==
    IF r.ret = 0 THEN Res(r.st, <<>>)
    ELSE IF ~IsMapping(r.st.h[r.ret]) THEN Throw(r.st, AttributeError(<<"items">>))
    ELSE EachContent(r.st, r.ret, 1, <<>>)
BodyInit(st, b) ==
    IF Falsy(st.h, b) THEN Res(st, <<>>)
    ELSE IF ~IsMapping(st.h[b]) THEN Throw(st, AttributeError(<<"pop">>))
    ELSE BodyContent(Popped(Popped(Popped(st, b, K("required")).st, b,
                                   DESCRIPTION).st, b, CONTENT))

\* PathParameter(spec=s) for s in op_spec.get('parameters', []): the
\* parameter reads spec['in'] and spec['name'] and keeps the object
ParametersInit(st, op) ==
    IF PARAMETERS \notin MKeys(st.h[op]) THEN Res(st, <<>>)
    ELSE IF ~IsArray(st.h[MGet(st.h[op], PARAMETERS)])
    THEN Throw(st, TypeError(<<"parameters">>))
    ELSE IF \E i \in 1..Len(st.h[MGet(st.h[op], PARAMETERS)].l) :
               \/ ~IsMapping(st.h[st.h[MGet(st.h[op], PARAMETERS)].l[i]])
               \/ K("in") \notin MKeys(st.h[st.h[MGet(st.h[op], PARAMETERS)].l[i]])
               \/ K("name") \notin MKeys(st.h[st.h[MGet(st.h[op], PARAMETERS)].l[i]])
    THEN Throw(st, KeyError(K("in")))
    ELSE Res(st, st.h[MGet(st.h[op], PARAMETERS)].l)

\* self._operations[operation_id] = Operation(...): rs is the outcome of
\* OperationResponse(op_spec.pop('responses', None))
Recorded(ix, id, params, body, rs) ==
    IF Broke(rs.st) THEN [ix EXCEPT !.st = rs.st]
    ELSE [st |-> rs.st,
          operations |-> Append(ix.operations,
                                [operation_id |-> id, params |-> params,
                                 body |-> body, response_schema |-> rs.ret])]

\* rb is the outcome of self._initalize_request_body(...)
WithBody(ix, op, id, params, rb) ==
    IF Broke(rb.st) THEN [ix EXCEPT !.st = rb.st]
    ELSE CHOOSE out \in
             {Recorded(ix, id, params, rb.ret, ResponseInit(r.st, r.ret)) :
                 r \in {Popped(rb.st, op, RESPONSES)}} : TRUE

\* rp is the outcome of building the parameters
WithParams(ix, op, id, rp) ==
    IF Broke(rp.st) THEN [ix EXCEPT !.st = rp.st]
    ELSE CHOOSE out \in
             {WithBody(ix, op, id, rp.ret, BodyInit(r.st, r.ret)) :
                 r \in {Popped(rp.st, op, REQUEST_BODY)}} : TRUE

\* the body of the loops of Client._initialize_operations for one op_spec
\* whose summary and description have been popped (state st)
OperationInit(ix, st, op) ==
    IF OPERATION_ID \notin MKeys(st.h[op]) THEN [ix EXCEPT !.st = st]
    ELSE IF Falsy(st.h, MGet(st.h[op], OPERATION_ID)) THEN [ix EXCEPT !.st = st]
    ELSE IF \E k \in 1..Len(ix.operations) :
               ix.operations[k].operation_id = st.h[MGet(st.h[op], OPERATION_ID)]
    THEN [ix EXCEPT !.st = [st EXCEPT !.exc =
                               Exc("AlmdrlibValueError", <<"Duplication">>)]]
    ELSE WithParams(ix, op, st.h[MGet(st.h[op], OPERATION_ID)],
                    ParametersInit(st, op))

\* for method, op_spec in path_spec.items()
RECURSIVE EachOperation(_, _, _)
EachOperation(ix, p, j) ==
    CASE Broke(ix.st) -> ix
      [] ~Broke(ix.st) /\ j > Len(ix.st.h[p].d) -> ix
      [] ~Broke(ix.st) /\ j <= Len(ix.st.h[p].d)
            /\ ~IsMapping(ix.st.h[ix.st.h[p].d[j][2]]) ->
            [ix EXCEPT !.st.exc = AttributeError(<<"get">>)]
      [] OTHER ->
            CHOOSE out \in
                {EachOperation(r, p, j + 1) :
                    r \in {OperationInit(
                              ix,
                              Popped(Popped(ix.st, ix.st.h[p].d[j][2], SUMMARY).st,
                                     ix.st.h[p].d[j][2], DESCRIPTION).st,
                              ix.st.h[p].d[j][2])}} : TRUE

\* for path, path_spec in self.paths.items()
RECURSIVE EachPathItem(_, _, _)
EachPathItem(ix, ps, i) ==
    CASE Broke(ix.st) -> ix
      [] ~Broke(ix.st) /\ i > Len(ix.st.h[ps].d) -> ix
      [] ~Broke(ix.st) /\ i <= Len(ix.st.h[ps].d)
            /\ ~IsMapping(ix.st.h[ix.st.h[ps].d[i][2]]) ->
            [ix EXCEPT !.st.exc = AttributeError(<<"items">>)]
      [] OTHER ->
            CHOOSE out \in
                {EachPathItem(r, ps, i + 1) :
                    r \in {EachOperation(ix, ix.st.h[ps].d[i][2], 1)}} : TRUE

\* Client._initialize_operations() over the objects of self.paths
InitializedOperations(st, ps) ==
    IF ~IsMapping(st.h[ps])
    THEN [st |-> [st EXCEPT !.exc = AttributeError(<<"items">>)], operations |-> <<>>]
    ELSE EachPathItem([st |-> st, operations |-> <<>>], ps, 1)

\* Client.load_spec(spec, variables) for a document that declares no
\* servers: self.servers is empty and no server is chosen
load_spec(h, root) ==
    IF ~IsMapping(h[root])
       \/ ~({OPENAPI, INFO, PATHS} \subseteq MKeys(h[root]))
    THEN [st |-> [h |-> h, cache |-> EmptyMap,
                  exc |-> ValueError(<<"Invaliad openapi document">>)],
          operations |-> <<>>]
    ELSE InitializedOperations([h |-> h, cache |-> EmptyMap, exc |-> NoneV],
                               MGet(h[root], PATHS))

---------------------------------------------------------------------------
(* almdrlib.search.Search.  sr is the Search object together with the call *)
(* that runs on it: the attributes search_id, account_id, next_token and   *)
(* remaining; the method that is running (op, block), its position (pc),   *)
(* the list `results` of fetch_all; what the last call returned or raised  *)
(* (out); and, since load_results, the calls made, the requests sent with  *)
(* their responses and the sleeps, in order (trace).                       *)

ROWS_PER_FETCH == 10000

NoSearch == [state |-> "none"]

Returned_(v) == [t |-> "returned", ret |-> v]
Raised_(cls) == [t |-> "raised", cls |-> cls]

\* Search.load_results(account_id, result_id), `account` its account_id
load_results(account, result_id) ==
    [state |-> "loaded", search_id |-> result_id, account_id |-> account,
     next_token |-> NoneV, remaining |-> NoneV,
     op |-> "none", block |-> TRUE, pc |-> "idle", results |-> <<>>,
     out |-> NoneV, trace |-> <<>>]

\* Search.results_remaining()
results_remaining(sr) == IsNone(sr.remaining) \/ sr.remaining.n > 0

\* a call ends: it returns v, or raises
Return(sr, v) ==
    [sr EXCEPT !.pc = "idle", !.out = Returned_(v), !.results = <<>>,
               !.trace = Append(@, [ev |-> "return"])]
RaiseFrom(sr, cls) ==
    [sr EXCEPT !.pc = "idle", !.out = Raised_(cls), !.results = <<>>,
               !.trace = Append(@, [ev |-> "raise"])]

\* the call of wait_for_complete(block), fetch(block) or fetch_all()
Called(sr, op, block) ==
    [sr EXCEPT !.op = op, !.block = block, !.pc = "status", !.results = <<>>,
               !.out = NoneV,
               !.trace = Append(@, [ev |-> "call", op |-> op, block |-> block])]

\* fetch_all(): results = [], then `while self.results_remaining()`
fetch_all(sr) ==
    IF results_remaining(sr) THEN Called(sr, "fetch_all", TRUE)
    ELSE Return(Called(sr, "fetch_all", TRUE), ListV(<<>>))

\* Polled of a loop that asks again at once while the search is pending
PolledWithoutSleep(sr, status) ==
    IF status = "pending"
    THEN IF ~sr.block THEN Return(sr, NoneV) ELSE [sr EXCEPT !.pc = "status"]
    ELSE IF status = "failed" THEN RaiseFrom(sr, "Exception")
    ELSE IF sr.op = "wait_for_complete" THEN Return(sr, BoolV(TRUE))
    ELSE [sr EXCEPT !.pc = "results"]

\* the branch on search_status of wait_for_complete and of fetch, sr the
\* object after the status request
Polled(sr, status) ==
    IF status = "pending"
    THEN IF ~sr.block THEN Return(sr, NoneV) ELSE [sr EXCEPT !.pc = "sleep"]
    ELSE IF status = "failed" THEN RaiseFrom(sr, "Exception")
    ELSE IF status \in {"complete", "suspended"}
    THEN IF sr.op = "wait_for_complete" THEN Return(sr, BoolV(TRUE))
         ELSE [sr EXCEPT !.pc = "results"]
    ELSE sr

\* self.search_client.get_search_status(...) and the branch on its answer
get_search_status(sr, status) ==
    Polled([sr EXCEPT !.trace = Append(@, [ev |-> "status", status |-> status])],
           status)

\* the results request fetch sends: the first one of a search with the row
\* limit, the others with the token
ResultsRequest(sr, page) ==
    IF IsNone(sr.next_token)
    THEN [ev |-> "results", limit |-> IntV(ROWS_PER_FETCH),
          starting_token |-> NoneV, page |-> page]
    ELSE [ev |-> "results", limit |-> NoneV,
          starting_token |-> sr.next_token, page |-> page]

\* Advanced that takes the token of every page
AdvancedAlways(sr, page) ==
    [sr EXCEPT !.remaining = page.remaining, !.next_token = page.next_token]

\* self.remaining = results['remaining'], and the token of the next page
Advanced(sr, page) ==
    IF page.remaining # IntV(0)
    THEN [sr EXCEPT !.remaining = page.remaining, !.next_token = page.next_token]
    ELSE [sr EXCEPT !.remaining = page.remaining]

\* `return results` of fetch: to the caller, or to the loop of fetch_all,
\* which appends the page and tests results_remaining() again
FetchReturn(sr, page) ==
    IF sr.op = "fetch" THEN Return(sr, page)
    ELSE IF results_remaining(sr)
    THEN [sr EXCEPT !.results = Append(@, page), !.pc = "status"]
    ELSE Return(sr, ListV(Append(sr.results, page)))

\* the complete/suspended branch of fetch: the results request and what
\* follows its answer
get_search_results(sr, page) ==
    FetchReturn(Advanced([sr EXCEPT !.trace = Append(@, ResultsRequest(sr, page))],
                         page),
                page)

\* the callers and the position of one that has not called yet
Callers == 1..NumCallers
NoOutcome == [t |-> "none"]
Idle == [pc |-> "idle", n |-> 0, kwargs |-> EmptyMap, env |-> NoneV,
         f |-> NoneV, out |-> NoOutcome]

\* a document of one operation with an optional boolean query parameter and
\* a required path parameter the session has a default for
RaceDocs ==
    {OneOpPaths(Op_getThing,
                << ParamSpec(N_x_id, "query", FALSE, "boolean"),
                   ParamSpec(N_account_id, "path", TRUE, "string") >>,
                NoneV)}

\* what the callers pass: x_id or nothing, account_id left to its default
RaceKwargs(op) == {a \in Kwargs(op) : N_account_id \notin DOMAIN a}

\* the HTTP layer answers every request of the callers with 200
RaceEnvs(s) == {e \in Envs(s) : e.request = Response(200, DictV(<<>>))}

Unbuilt == [state |-> "unbuilt"]

InitWith(docs, serverLists, sessions) ==
    /\ paths \in docs
    /\ servers \in serverLists
    /\ session \in sessions
    /\ client = Unbuilt
    /\ result = [op |-> "none"]
    /\ log = <<>>
    /\ kw = EmptyMap
    /\ threads = [t \in Callers |-> Idle]
    /\ doc = NoDocument
    /\ search = NoSearch

InitParams ==
    InitWith(ParamDocs, {<<StaticServer>>},
             {S_ready, S_fresh, S_skip, S_skip_account})
InitBody == InitWith(BodyDocs, {<<StaticServer>>}, {S_ready})
InitIndex == InitWith(IndexDocs, {<<StaticServer>>}, {S_ready, S_fresh, NoSession})
InitServer == InitWith({TrivialDoc}, ServerLists, Sessions \cup {NoSession})

\* ---- documents to resolve
K_type == K("type")
K_required == K("required")
K_properties == K("properties")
K_a == K("a")
K_b == K("b")
K_schema == K("schema")
K_get == K("get")
K_x == K("/x")
K_components == K("components")
K_schemas == K("schemas")

\* {type: <name>}
TypeOnly(name) == DictV(<< <<K_type, StrV(K(name))>> >>)
\* {$ref: '#/components/schemas/<name>'}
RefTo(name) ==
    DictV(<< <<REF, StrV(<<"#", "/", "components", "/", "schemas", "/", name>>)>> >>)
Names(l) == ListV([i \in 1..Len(l) |-> StrV(l[i])])

SchemaA == DictV(<< <<K_type, StrV(K("object"))>>, <<K_required, Names(<<K_a>>)>> >>)
PlainSchemas == << <<K("A"), SchemaA>>, <<K("B"), TypeOnly("string")>> >>
\* A refers to B, which refers to C
ChainSchemas ==
    << <<K("A"), RefTo("B")>>, <<K("B"), RefTo("C")>>,
       <<K("C"), TypeOnly("string")>> >>
\* A has a property that refers to B
NestedSchemas ==
    << <<K("A"), DictV(<< <<K_type, StrV(K("object"))>>,
                          <<K_properties, DictV(<< <<K_a, RefTo("B")>> >>)>> >>)>>,
       <<K("B"), TypeOnly("string")>> >>
Reversed(s) == [i \in 1..Len(s) |-> s[Len(s) + 1 - i]]
SchemaSets ==
    {PlainSchemas, ChainSchemas, NestedSchemas,
     Reversed(PlainSchemas), Reversed(ChainSchemas), Reversed(NestedSchemas)}

\* the node that is looked at: the schema of GET /x
PathWith(pathLevel, node) ==
    DictV((IF pathLevel
           THEN << <<PARAMETERS,
                     ListV(<< DictV(<< <<K("name"), StrV(K_a)>>,
                                       <<K_schema, RefTo("B")>> >>) >>)>> >>
           ELSE <<>>)
          \o << <<K_get, DictV(<< <<K_schema, node>> >>)>> >>)
Document(pathsFirst, pathLevel, schemas, node) ==
    IF pathsFirst
    THEN DictV(<< <<PATHS, DictV(<< <<K_x, PathWith(pathLevel, node)>> >>)>>,
                  <<K_components, DictV(<< <<K_schemas, DictV(schemas)>> >>)>> >>)
    ELSE DictV(<< <<K_components, DictV(<< <<K_schemas, DictV(schemas)>> >>)>>,
                  <<PATHS, DictV(<< <<K_x, PathWith(pathLevel, node)>> >>)>> >>)
NodePointer == <<PATHS, K_x, K_get, K_schema>>

RefDocuments ==
    {Document(pf, pl, s, n) :
        pf \in BOOLEAN, pl \in BOOLEAN, s \in SchemaSets,
        n \in {RefTo("A"), RefTo("B"), TypeOnly("string")}}

\* the branches of an allOf and the node's own keys
Branches ==
    {TypeOnly("string"),
     DictV(<< <<K_type, StrV(K("object"))>>, <<K_required, Names(<<K_b>>)>> >>),
     DictV(<< <<K_required, Names(<<K_a, K_b>>)>> >>),
     DictV(<< <<K_properties, DictV(<< <<K_a, TypeOnly("integer")>> >>)>> >>),
     RefTo("A")}
Owns ==
    {DictV(<<>>),
     TypeOnly("object"),
     DictV(<< <<K_required, Names(<<K_a>>)>> >>),
     DictV(<< <<K_properties, DictV(<< <<K_b, TypeOnly("string")>> >>)>> >>)}
AllOfNode(own, branches) == DictV(own.d \o << <<ALL_OF, ListV(branches)>> >>)
AllOfDocuments ==
    {Document(TRUE, FALSE, PlainSchemas, AllOfNode(own, bs)) :
        own \in Owns, bs \in UNION {[1..n -> Branches] : n \in 1..MaxBranches}}

\* A is itself an allOf
WrappedSchemas ==
    << <<K("A"), AllOfNode(DictV(<<>>), <<TypeOnly("string")>>)>>,
       <<K("B"), TypeOnly("string")>> >>
\* an allOf with a branch that is an allOf, written in place or referred to
NestedAllOfNodes ==
    {AllOfNode(DictV(<<>>), <<AllOfNode(DictV(<<>>), <<TypeOnly("string")>>)>>),
     AllOfNode(DictV(<<>>), <<RefTo("A")>>),
     AllOfNode(DictV(<<>>),
               <<RefTo("A"), DictV(<< <<K_required, Names(<<K_a>>)>> >>)>>),
     RefTo("A")}
NestedAllOfDocuments ==
    {Document(pf, FALSE, s, n) :
        pf \in BOOLEAN, s \in {WrappedSchemas, Reversed(WrappedSchemas)},
        n \in NestedAllOfNodes}

\* A has a property that refers to A
SelfSchemas ==
    << <<K("A"), DictV(<< <<K_type, StrV(K("object"))>>,
                          <<K_properties, DictV(<< <<K_a, RefTo("A")>> >>)>> >>)>>,
       <<K("B"), TypeOnly("string")>> >>
\* a property of a property of A refers to A
AncestorSchemas ==
    << <<K("A"),
         DictV(<< <<K_type, StrV(K("object"))>>,
                  <<K_properties,
                    DictV(<< <<K_a,
                               DictV(<< <<K_properties,
                                          DictV(<< <<K_b, RefTo("A")>> >>)>> >>)>> >>)>> >>)>>,
       <<K("B"), TypeOnly("string")>> >>
OperationSchemaSets ==
    {PlainSchemas, SelfSchemas, AncestorSchemas,
     Reversed(PlainSchemas), Reversed(SelfSchemas), Reversed(AncestorSchemas)}

K_200 == <<"2", "0", "0">>
K_json == K("application/json")
\* {content: {application/json: {schema: node}}}
JsonContent(node) ==
    DictV(<< <<CONTENT, DictV(<< <<K_json, DictV(<< <<SCHEMA, node>> >>)>> >>)>> >>)
\* an operation object; body and response are schemas, or NoneV when the
\* operation declares no request body, no responses
OperationOf(body, response) ==
    DictV(<< <<OPERATION_ID, StrV(K("get_x"))>> >>
          \o (IF IsNone(body) THEN <<>>
              ELSE << <<REQUEST_BODY, JsonContent(body)>> >>)
          \o (IF IsNone(response) THEN <<>>
              ELSE << <<RESPONSES, DictV(<< <<K_200, JsonContent(response)>> >>)>> >>))
OperationDocument(pathsFirst, schemas, op) ==
    DictV(<< <<OPENAPI, StrV(K("3.0.2"))>>, <<INFO, DictV(<<>>)>> >>
          \o (IF pathsFirst
              THEN << <<PATHS, DictV(<< <<K_x, DictV(<< <<K_get, op>> >>)>> >>)>>,
                      <<K_components, DictV(<< <<K_schemas, DictV(schemas)>> >>)>> >>
              ELSE << <<K_components, DictV(<< <<K_schemas, DictV(schemas)>> >>)>>,
                      <<PATHS, DictV(<< <<K_x, DictV(<< <<K_get, op>> >>)>> >>)>> >>))
OperationDocuments ==
    {OperationDocument(pf, s, OperationOf(b, r)) :
        pf \in BOOLEAN, s \in OperationSchemaSets,
        b \in {NoneV, RefTo("A"), RefTo("B")},
        r \in {NoneV, RefTo("A"), RefTo("B")}}

\* the orders a set of keys or of names can be iterated in
Orderings(S) ==
    {s \in [1..Cardinality(S) -> S] :
        \A i, j \in 1..Cardinality(S) : i # j => s[i] # s[j]}
Orders ==
    {p \o q : p \in Orderings({K_type, K_required, K_properties, REF, ALL_OF}),
              q \in Orderings({K_a, K_b})}

InitDocument ==
    /\ paths \in RaceDocs
    /\ servers = <<StaticServer>>
    /\ session = S_ready
    /\ client = Unbuilt
    /\ result = [op |-> "none"]
    /\ log = <<>>
    /\ kw = EmptyMap
    /\ threads = [t \in Callers |-> Idle]
    /\ doc \in {LoadedDocument(v) : v \in RefDocuments \cup AllOfDocuments \cup NestedAllOfDocuments}
    /\ search = NoSearch

InitOperations ==
    /\ paths \in RaceDocs
    /\ servers = <<StaticServer>>
    /\ session = S_ready
    /\ client = Unbuilt
    /\ result = [op |-> "none"]
    /\ log = <<>>
    /\ kw = EmptyMap
    /\ threads = [t \in Callers |-> Idle]
    /\ doc \in {LoadedDocument(v) : v \in OperationDocuments}
    /\ search = NoSearch

\* documents to index twice, with one server or two to choose from
OtherServer == ServerSpec(T_https \o <<"other", ".", "example", ".", "com">>,
                          FALSE, EmptyMap, NoneV)
InitReindex ==
    InitWith(IndexDocs, {<<StaticServer>>, <<StaticServer, OtherServer>>},
             {S_ready})

\* sessions that are called directly
InitSession ==
    InitWith({TrivialDoc}, {<<StaticServer>>},
             Sessions \cup {S_ready, S_fresh, S_skip, S_skip_account})

\* ---- searches
MaxSearchCalls == 2     \* calls made on one loaded search
MaxPending == 1         \* pending answers to the status requests of one search
MaxPages == 3           \* pages of results of one search

SearchStatuses == {"pending", "failed", "complete", "suspended"}
SearchTokens == {StrV(<<"t1">>), StrV(<<"t2">>)}
\* a page of results: the rows that remain after it and, when some do, the
\* token of the next page
ResultPages ==
    {[t |-> "page", remaining |-> IntV(0), next_token |-> NoneV]}
    \cup {[t |-> "page", remaining |-> IntV(n), next_token |-> tok] :
            n \in {1}, tok \in SearchTokens}

EventsOf(trace, ev) == {i \in 1..Len(trace) : trace[i].ev = ev}
\* the events since the last call began
LastCall(trace) ==
    CHOOSE i \in EventsOf(trace, "call") : \A j \in EventsOf(trace, "call") : j <= i
\* the pending answers given since load_results
PendingAnswers(trace) ==
    Cardinality({i \in EventsOf(trace, "status") : trace[i].status = "pending"})

\* what the service may answer to the next status request, to the next
\* results request
StatusAnswers(sr) ==
    IF PendingAnswers(sr.trace) >= MaxPending THEN SearchStatuses \ {"pending"}
    ELSE SearchStatuses
PageAnswers(sr) ==
    IF Cardinality(EventsOf(sr.trace, "results")) + 1 >= MaxPages
    THEN {pg \in ResultPages : pg.remaining = IntV(0)}
    ELSE ResultPages

InitSearch ==
    InitWith({TrivialDoc}, {<<StaticServer>>}, {S_ready})

InitRace == InitWith(RaceDocs, {<<StaticServer>>}, {S_ready})

Init ==
    \/ InitParams \/ InitBody \/ InitIndex \/ InitServer \/ InitRace
    \/ InitDocument \/ InitOperations \/ InitReindex \/ InitSession
    \/ InitSearch

\* Client(name, session=session): construction
Construct ==
    /\ client.state = "unbuilt"
    /\ \E env \in Envs(session), variables \in CallerVariables(servers) :
         \E r \in {NewClient(session, env, ClientName, variables, paths, servers)} :
             /\ session' = r.s
             /\ log' = r.log
             /\ paths' = r.paths
             /\ client' = r.client
             /\ result' = [op |-> "construct", exc |-> r.exc]
    /\ UNCHANGED <<servers, kw, threads, doc, search>>

\* client.<operation id>(kwargs): Operation.__call__
Invoke ==
    /\ client.state = "ready"
    /\ \E k \in 1..Len(client.operations) :
         \E kwargs \in Kwargs(client.operations[k]) : \E env \in Envs(session) :
               \E u \in UnwrapChoices(kwargs) :
                 \E r \in {Call(client, client.operations[k], session, kwargs,
                              env, u)} :
                     /\ session' = r.s
                     /\ log' = r.log
                     /\ kw' = r.kw
                     /\ client' = [client EXCEPT
                                      !.operations[k].call =
                                          IF IsNone(@)
                                          THEN _gen_call(client.operations[k], 0)
                                          ELSE @,
                                      !.operations[k].params = r.params]
                     /\ result' = [op |-> "invoke", k |-> k, kwargs |-> kwargs,
                                   caller |-> CallerMap(kwargs, r),
                                   exc |-> r.exc, ret |-> r.ret, b |-> r.b,
                                   ct |-> r.ct, url |-> r.url]
    /\ UNCHANGED <<paths, servers, threads, doc, search>>

\* operation.get_schema()
GetSchema ==
    /\ client.state = "ready"
    /\ \E k \in 1..Len(client.operations) :
         result' = [op |-> "get_schema", k |-> k,
                    ret |-> get_schema(client.operations[k])]
    /\ log' = <<>>
    /\ UNCHANGED <<paths, servers, session, client, kw, threads, doc, search>>

\* session.get_url(service_name, account_id)
GetUrl ==
    /\ session.present
    /\ \E account \in {NoneV, ACCOUNT} : \E env \in Envs(session) :
         \E r \in {get_url(session, <<>>, env, ServiceName, account)} :
             /\ session' = r.s
             /\ log' = r.log
             /\ result' = [op |-> "get_url", account |-> account,
                           endpoint |-> session.global_endpoint,
                           response |-> env.request,
                           exc |-> r.exc, ret |-> r.ret]
    /\ UNCHANGED <<paths, servers, client, kw, threads, doc, search>>

\* server.url, asked of one of the client's servers
AskServerUrl ==
    /\ client.state = "ready"
    /\ \E i \in 1..Len(client.servers) :
         result' = [op |-> "server_url", server |-> i,
                    ret |-> ServerUrl(client.servers[i])]
    /\ log' = <<>>
    /\ UNCHANGED <<paths, servers, session, client, kw, threads, doc, search>>

Next == Construct \/ Invoke \/ GetSchema \/ GetUrl \/ AskServerUrl

\* Operation.__call__ one statement at a time, for callers that share the
\* client and take no lock.  The operation is the only one of the index.

\* caller t calls client.<operation id>(kwargs)
Begin(t) ==
    /\ client.state = "ready"
    /\ threads[t].pc \in {"idle", "done"}
    /\ threads[t].n < MaxCalls
    /\ \E kwargs \in RaceKwargs(client.operations[1]) :
         \E env \in RaceEnvs(session) :
            threads' = [threads EXCEPT ![t] =
                          [pc |-> "check", n |-> @.n + 1, kwargs |-> kwargs,
                           env |-> env, f |-> NoneV, out |-> NoOutcome]]
    /\ UNCHANGED <<paths, servers, session, client, result, log, kw, doc, search>>

\* `if not self._call:`
Check(t) ==
    /\ threads[t].pc = "check"
    /\ threads' = [threads EXCEPT ![t].pc =
                      IF IsNone(client.operations[1].call) THEN "gen"
                      ELSE "load"]
    /\ UNCHANGED <<paths, servers, session, client, result, log, kw, doc, search>>

\* `self._call = self._gen_call()`
Gen(t) ==
    /\ threads[t].pc = "gen"
    /\ client' = [client EXCEPT !.operations[1].call =
                                    _gen_call(client.operations[1], t)]
    /\ threads' = [threads EXCEPT ![t].pc = "load"]
    /\ UNCHANGED <<paths, servers, session, result, log, kw, doc, search>>

\* `self._call` of the return statement is evaluated
Load(t) ==
    /\ threads[t].pc = "load"
    /\ threads' = [threads EXCEPT ![t].pc = "run",
                                  ![t].f = client.operations[1].call]
    /\ UNCHANGED <<paths, servers, session, client, result, log, kw, doc, search>>

\* RunArgs of a function that keeps its arguments in one place shared by
\* the callers
RunArgsShared(th) == threads[1].kwargs

\* the arguments the function works on: those of this call
RunArgs(th) == th.kwargs

\* the function loaded is applied to the arguments of the call; it works on
\* its own locals and the operation it closes over
Run(t) ==
    /\ threads[t].pc = "run"
    /\ \E k \in {i \in 1..Len(client.operations) :
                    client.operations[i].operation_id = threads[t].f.self} :
         \E u \in UnwrapChoices(RunArgs(threads[t])) :
           \E r \in {Call(client, client.operations[k], session,
                          RunArgs(threads[t]), threads[t].env, u)} :
              /\ session' = r.s
              /\ client' = [client EXCEPT !.operations[k].params = r.params]
              /\ threads' = [threads EXCEPT
                                ![t].pc = "done",
                                ![t].out = [t |-> "outcome", exc |-> r.exc,
                                            ret |-> r.ret, b |-> r.b,
                                            url |-> r.url, log |-> r.log]]
    /\ UNCHANGED <<paths, servers, result, log, kw, doc, search>>

NextRace ==
    \/ Construct
    \/ \E t \in Callers : Begin(t) \/ Check(t) \/ Gen(t) \/ Load(t) \/ Run(t)

\* _normalize_spec(service_spec_file, spec) in Client.load_service_spec
Normalize ==
    /\ doc.state = "loaded"
    /\ \E order \in Orders :
         \E st \in {NormalizedDocument(doc.h, doc.root, order)} :
             doc' = [state |-> "normalized", src |-> doc.src, h |-> st.h,
                     root |-> doc.root, exc |-> st.exc]
    /\ UNCHANGED <<paths, servers, session, client, result, log, kw, threads, search>>

NextDocument == Normalize

\* self.load_spec(spec, variables) in Client.load_service_spec, which is
\* reached when _normalize_spec has returned
IndexDocument ==
    /\ doc.state = "normalized"
    /\ IsNone(doc.exc)
    /\ \E ix \in {load_spec(doc.h, doc.root)} :
         doc' = [state |-> "indexed", src |-> doc.src, h |-> ix.st.h,
                 root |-> doc.root, exc |-> ix.st.exc,
                 operations |-> ix.operations]
    /\ UNCHANGED <<paths, servers, session, client, result, log, kw, threads, search>>

NextOperations == Normalize \/ IndexDocument

\* client.set_server(s), s one of the client's servers: self._server = s,
\* then self._initialize_operations() over self.paths as the construction
\* left them
SetServer ==
    /\ client.state = "ready"
    /\ \E s \in 1..Len(client.servers) :
         \E ix \in {_initialize_operations(paths, s, client.name)} :
             /\ client' = [client EXCEPT !.server = s,
                                         !.operations = ix.operations]
             /\ paths' = ix.paths
             /\ result' = [op |-> "set_server", server |-> s, exc |-> ix.exc]
    /\ log' = <<>>
    /\ UNCHANGED <<servers, session, kw, threads, doc, search>>

NextReindex == Construct \/ SetServer

\* session.request(method, url, headers=headers), called directly
Request ==
    /\ session.present
    /\ \E headers \in CallerHeaders, env \in AllEnvs :
         \E r \in {request(session, <<>>, env, "get", U_static, EmptyMap,
                           headers, EmptyMap, EmptyMap)} :
             /\ session' = r.s
             /\ log' = r.log
             /\ result' = [op |-> "request", headers |-> headers,
                           exc |-> r.exc, ret |-> r.ret]
    /\ UNCHANGED <<paths, servers, client, kw, threads, doc, search>>

\* session._authenticate(), as Session.account_id and Session.__call__ call it
Authenticate ==
    /\ session.present
    /\ \E env \in AllEnvs :
         \E r \in {_authenticate(session, <<>>, env)} :
             /\ session' = r.s
             /\ log' = r.log
             /\ result' = [op |-> "authenticate", env |-> env, exc |-> r.exc]
    /\ UNCHANGED <<paths, servers, client, kw, threads, doc, search>>

NextSession == Request \/ Authenticate

\* search.load_results(account_id, search_uuid), as submit calls it
LoadResults ==
    /\ search.state = "none"
    /\ search' = load_results(ACCOUNT, StrV(<<"uuid">>))
    /\ UNCHANGED <<paths, servers, session, client, result, log, kw, threads, doc>>

\* a caller calls wait_for_complete(block), fetch(block) or fetch_all()
BeginSearchCall ==
    /\ search.state = "loaded"
    /\ search.pc = "idle"
    /\ Cardinality(EventsOf(search.trace, "call")) < MaxSearchCalls
    /\ \/ \E block \in BOOLEAN : search' = Called(search, "wait_for_complete", block)
       \/ /\ Cardinality(EventsOf(search.trace, "results")) < MaxPages
          /\ \E block \in BOOLEAN : search' = Called(search, "fetch", block)
       \/ search' = fetch_all(search)
    /\ UNCHANGED <<paths, servers, session, client, result, log, kw, threads, doc>>

\* the status request of the polling loop and the branch on its answer
Poll ==
    /\ search.state = "loaded"
    /\ search.pc = "status"
    /\ \E status \in StatusAnswers(search) :
         search' = get_search_status(search, status)
    /\ UNCHANGED <<paths, servers, session, client, result, log, kw, threads, doc>>

\* sleep(1)
Sleep ==
    /\ search.state = "loaded"
    /\ search.pc = "sleep"
    /\ search' = [search EXCEPT !.pc = "status",
                                !.trace = Append(@, [ev |-> "sleep"])]
    /\ UNCHANGED <<paths, servers, session, client, result, log, kw, threads, doc>>

\* the results request of fetch and what follows its answer
Results ==
    /\ search.state = "loaded"
    /\ search.pc = "results"
    /\ \E page \in PageAnswers(search) :
         search' = get_search_results(search, page)
    /\ UNCHANGED <<paths, servers, session, client, result, log, kw, threads, doc>>

NextSearch == LoadResults \/ BeginSearchCall \/ Poll \/ Sleep \/ Results

Spec == Init /\ [][Next]_vars
SpecParams == InitParams /\ [][Next]_vars
SpecBody == InitBody /\ [][Next]_vars
SpecIndex == InitIndex /\ [][Next]_vars
SpecServer == InitServer /\ [][Next]_vars
SpecRace == InitRace /\ [][NextRace]_vars
SpecDocument == InitDocument /\ [][NextDocument]_vars
SpecOperations == InitOperations /\ [][NextOperations]_vars
SpecReindex == InitReindex /\ [][NextReindex]_vars
SpecSession == InitSession /\ [][NextSession]_vars
SpecSearch == InitSearch /\ [][NextSearch]_vars
\* a call that has begun runs on: its thread is scheduled
SpecSearchFair ==
    SpecSearch /\ WF_vars(Poll) /\ WF_vars(Sleep) /\ WF_vars(Results)

---------------------------------------------------------------------------
(* Properties *)

ExcIs(e, cls) == e.t = "exc" /\ e.cls = cls

Invoked == result.op = "invoke"

\* the operation the last invocation was made on
InvokedOp == client.operations[result.k]

\* the HTTP calls of kind `kind` in the log
HttpCalls(kind) ==
    {i \in 1..Len(log) : log[i].ev = "http" /\ log[i].kind = kind}

\* what Session.get_default gives for a keyword name in the current state
SessionDefault(name) ==
    IF name = N_account_id THEN session.account_id ELSE NoneV

\* the keyword names of the required parameters of the invoked operation
\* that the caller left out and that have no default: the session has none
\* and the parameter holds none memoized from an earlier invocation
MissingRequired ==
    {InvokedOp.params[i].name : i \in
        {j \in 1..Len(InvokedOp.params) :
            /\ InvokedOp.params[j].required
            /\ InvokedOp.params[j].name \notin DOMAIN result.kwargs
            /\ ~Truthy(SessionDefault(InvokedOp.params[j].name))
            /\ ~Truthy(InvokedOp.params[j].default)}}

\* no two parameters of the invoked operation share a keyword name
DistinctKeywords ==
    \A i, j \in 1..Len(InvokedOp.params) :
        i # j => InvokedOp.params[i].name # InvokedOp.params[j].name

\* the keyword names of the required parameters of the invoked operation
RequiredNames ==
    {InvokedOp.params[i].name : i \in
        {j \in 1..Len(InvokedOp.params) : InvokedOp.params[j].required}}

\* C1: an invocation that leaves out a required parameter for which the
\* session has no default fails with the missing-parameter error
\* (ValueError "'<name>' is required") naming a required parameter (one that
\* was left out, when no two parameters share a keyword), and it fails in
\* the call itself: no request is sent.  (An invocation whose default
\* lookup fails in authentication raises the session's error instead.)
C1_MissingRequiredRaises ==
    (Invoked /\ session.present /\ MissingRequired # {}
        /\ ~ExcIs(result.exc, "AuthenticationException"))
    => /\ ExcIs(result.exc, "ValueError")
       /\ result.exc.msg = "is required"
       /\ result.exc.name \in RequiredNames
       /\ DistinctKeywords => result.exc.name \in MissingRequired
       /\ HttpCalls("request") = {}
       /\ result.url = <<>>

C1_Witness ==
    /\ Invoked /\ session.present
    /\ MissingRequired # {}
    /\ ExcIs(result.exc, "ValueError")
    /\ result.kwargs # EmptyMap

\* the invocation serialized its parameters and body and called
\* session.request
Reached == Invoked /\ result.url # <<>>

\* keyword is wire with every hyphen replaced by an underscore
HyphensReplaced(wire, keyword) ==
    /\ Len(keyword) = Len(wire)
    /\ \A c \in 1..Len(wire) :
          keyword[c] = IF wire[c] = "-" THEN "_" ELSE wire[c]

\* the keyword the caller gave for the wire name (<<>> when none)
GivenAs(wire) ==
    IF \E kwd \in DOMAIN result.kwargs : HyphensReplaced(wire, kwd)
    THEN CHOOSE kwd \in DOMAIN result.kwargs : HyphensReplaced(wire, kwd)
    ELSE <<>>

\* the wire names of the parameters declared in location l that are present
\* in the invocation: given by the caller or defaulted by the session
PresentIn(l) ==
    {InvokedOp.params[i].spec.name : i \in
        {j \in 1..Len(InvokedOp.params) :
            /\ InvokedOp.params[j].spec.in = l
            /\ \/ GivenAs(InvokedOp.params[j].spec.name) # <<>>
               \/ Truthy(InvokedOp.params[j].default)}}

Registered ==
    {InvokedOp.body.content[i][1] : i \in 1..Len(InvokedOp.body.content)}

\* the invocation was made on an operation with a request body
InvokedWithBody == Invoked /\ ~IsNone(InvokedOp.body)

\* the caller gave the content type ct as the content_type keyword
ExplicitContentType(ct) ==
    /\ N_content_type \in DOMAIN result.kwargs
    /\ result.kwargs[N_content_type] = StrV(ct)

\* C3: the variant a request body is serialized with is the one the caller
\* names with an explicit content_type; without one, the only registered
\* variant; and with several variants and no content_type the call fails
\* with the content-type ambiguity error and nothing is serialized.
C3_ContentTypeSelection ==
    InvokedWithBody =>
        /\ \A ct \in Registered : ExplicitContentType(ct) => result.ct = ct
        /\ (N_content_type \notin DOMAIN result.kwargs
              /\ Len(InvokedOp.body.content) = 1)
           => result.ct = InvokedOp.body.content[1][1]
        /\ (N_content_type \notin DOMAIN result.kwargs
              /\ Len(InvokedOp.body.content) > 1)
           => /\ result.exc = ContentTypeRequired
              /\ result.ct = <<>>
              /\ result.url = <<>>
              /\ HttpCalls("request") = {}

\* the state C3 fails in: two variants, an explicit content_type naming one
\* of them, and the ambiguity error all the same
C3_ExplicitIgnored ==
    /\ InvokedWithBody
    /\ Len(InvokedOp.body.content) = 2
    /\ \E ct \in Registered : ExplicitContentType(ct)
    /\ result.exc = ContentTypeRequired

\* a JSON text, among the values bodies are made of here: raw strings are
\* words, JSON texts open with a brace, a bracket or a quote
IsJsonText(v) ==
    v.t = "str" /\ v.s # <<>> /\ v.s[1] \in {"{", "[", "\""}

\* C4: the body handed to the transport is JSON text exactly when the
\* selected content type is a JSON content type; and on a body declaring
\* application/json and text/plain, content_type="text/plain" with a string
\* payload is serialized, raw.
C4_JsonExactlyForJsonTypes ==
    /\ (Reached /\ ~IsNone(InvokedOp.body) /\ result.ct # <<>>
          /\ DOMAIN result.kwargs \ {N_content_type} # {})
       => /\ DATA \in DOMAIN kw
          /\ IsJsonText(kw[DATA]) <=> result.ct \in JSON_CONTENT_TYPES
    /\ (InvokedWithBody /\ Registered = {CT_json, CT_text}
          /\ result.kwargs = (N_content_type :> StrV(CT_text))
                             @@ (DATA :> StrV(<<"abc">>)))
       => /\ Reached
          /\ result.ct = CT_text
          /\ kw[DATA] = StrV(<<"abc">>)

\* the state C4 fails in: a string payload sent as it is under a JSON
\* content type
C4_RawUnderJson ==
    /\ Reached /\ ~IsNone(InvokedOp.body)
    /\ IsNone(result.exc)
    /\ result.ct = CT_json
    /\ DATA \in DOMAIN kw
    /\ kw[DATA] = StrV(<<"abc">>)

\* the only variant of the body of the invoked operation
OnlyVariant == InvokedOp.body.content[1][2]

\* C6: an object body whose payload is named data takes its inner fields
\* as keywords with and without the explode hint, and is serialized in both
\* cases: with the hint as the inner object, {"x": 1}, without it nested
\* one level under the payload name, {"data": {"x": 1}}.
C6_ObjectBodyExplode ==
    (InvokedWithBody
        /\ Len(InvokedOp.body.content) = 1
        /\ OnlyVariant.cls = "Object"
        /\ OnlyVariant.name = DATA
        /\ N_x \in PropNames(OnlyVariant.properties)
        /\ result.kwargs = (N_x :> IntV(1)))
    => /\ Reached
       /\ DATA \in DOMAIN kw
       /\ kw[DATA] = StrV(JsonDumps(IF OnlyVariant.explode
                                    THEN BodyObject
                                    ELSE DictV(<< <<DATA, BodyObject>> >>)))

\* the state C6 fails in: the hint is set, x is given, and the lookup of
\* the payload name among the given fields fails
C6_ExplodeKeyError ==
    /\ InvokedWithBody
    /\ Len(InvokedOp.body.content) = 1
    /\ OnlyVariant.cls = "Object" /\ OnlyVariant.name = DATA
    /\ OnlyVariant.explode
    /\ result.kwargs = (N_x :> IntV(1))
    /\ ExcIs(result.exc, "KeyError")

\* C7: a composite query parameter is serialized by its style and explode:
\* an object with style form and explode false, given {a: 1, b: 2}, as the
\* string a,1,b,2; with explode true as the mapping itself; an array with
\* style pipeDelimited and explode false, given [1, 2, 3], as 1|2|3.
C7_StyleExplode ==
    Reached =>
        \A i \in 1..Len(InvokedOp.params) :
            LET spec == InvokedOp.params[i].spec
                kwd == GivenAs(spec.name)
            IN  (spec.in = "query" /\ kwd # <<>>) =>
                  /\ (spec.type = "object" /\ spec.style = "form"
                        /\ ~spec.explode)
                     => result.b.query[spec.name]
                            = StrV(<<"a", ",", "1", ",", "b", ",", "2">>)
                  /\ (spec.type = "object" /\ spec.style = "form"
                        /\ spec.explode)
                     => result.b.query[spec.name] = result.kwargs[kwd]
                  /\ (spec.type = "array" /\ spec.style = "pipeDelimited"
                        /\ ~spec.explode)
                     => result.b.query[spec.name]
                            = StrV(<<"1", "|", "2", "|", "3">>)

\* the state C7 fails in: the object is sent as Python prints it
C7_PythonText ==
    /\ Reached
    /\ Len(InvokedOp.params) = 1
    /\ InvokedOp.params[1].spec.in = "query"
    /\ InvokedOp.params[1].spec.type = "object"
    /\ InvokedOp.params[1].spec.style = "form"
    /\ ~InvokedOp.params[1].spec.explode
    /\ N_x_id \in DOMAIN result.b.query
    /\ result.b.query[N_x_id]
          = StrV(<<"{", "'", "a", "'", ":", " ", "1", ",", " ",
                   "'", "b", "'", ":", " ", "2", "}">>)

\* the path/method entries of the document and the operation id of each
DocEntries == Entries(paths, 1)
EntryId(e) == paths[e[1]].methods[e[2]].op.operationId
EntryPath(e) == paths[e[1]].path
EntryMethod(e) == paths[e[1]].methods[e[2]].method

\* the operation ids that two entries of the document declare
Duplicated ==
    {EntryId(DocEntries[i]) : i \in
        {a \in 1..Len(DocEntries) :
            /\ Truthy(EntryId(DocEntries[a]))
            /\ \E b \in 1..Len(DocEntries) :
                  a # b /\ EntryId(DocEntries[b]) = EntryId(DocEntries[a])}}

Constructed == result.op = "construct"

\* in a constructed client every operation id of the index is bound once, to
\* the one entry of the document that declares it
IndexUnique ==
    client.state = "ready" =>
        /\ \A i, j \in 1..Len(client.operations) :
              i # j => client.operations[i].operation_id
                          # client.operations[j].operation_id
        /\ \A i \in 1..Len(client.operations) :
              \E a \in 1..Len(DocEntries) :
                  /\ EntryId(DocEntries[a]) = client.operations[i].operation_id
                  /\ EntryPath(DocEntries[a]) = client.operations[i].path
                  /\ EntryMethod(DocEntries[a]) = client.operations[i].method
                  /\ \A b \in 1..Len(DocEntries) :
                        EntryId(DocEntries[b]) = EntryId(DocEntries[a]) => b = a

\* C5: when two path/method entries declare the same operation id,
\* construction fails with AlmdrlibValueError "Duplication <operation id>
\* specified for <name> API", which names a duplicated operation id and the
\* API; and the index of a constructed client binds each operation id to
\* exactly one path/method entry.
C5_DuplicateOperationIdFails ==
    /\ (Constructed /\ Duplicated # {})
       => /\ client.state = "failed"
          /\ ExcIs(result.exc, "AlmdrlibValueError")
          /\ result.exc.msg = "Duplication"
          /\ result.exc.args[1] \in Duplicated
          /\ result.exc.args[2] = StrV(ClientName)
    /\ IndexUnique

C5_Witness ==
    /\ Constructed
    /\ Duplicated = {Op_getThing}
    /\ Len(DocEntries) = 3
    /\ ExcIs(result.exc, "AlmdrlibValueError")
    /\ result.exc.args = <<Op_getThing, StrV(ClientName)>>

\* the error names the location e: its path is among the error's arguments
NamesLocation(e) ==
    /\ "args" \in DOMAIN result.exc
    /\ \E n \in 1..Len(result.exc.args) : result.exc.args[n] = StrV(EntryPath(e))

\* C5 as stated: the duplicate-operation error names both locations that
\* declare the operation id, and the index of a constructed client is
\* unique.
C5_NamesBothLocations ==
    /\ (Constructed /\ Duplicated # {})
       => /\ client.state = "failed"
          /\ \E a, b \in 1..Len(DocEntries) :
                /\ a # b
                /\ Truthy(EntryId(DocEntries[a]))
                /\ EntryId(DocEntries[a]) = EntryId(DocEntries[b])
                /\ NamesLocation(DocEntries[a])
                /\ NamesLocation(DocEntries[b])
    /\ IndexUnique

\* C8: get_schema is read-only and idempotent: no step, an invocation
\* included, changes the descriptor get_schema gives for any operation of
\* the index, and a get_schema step returns that descriptor and changes
\* neither the client, the session nor the document.
C8_GetSchemaReadOnly ==
    [][(client.state = "ready" /\ client'.state = "ready") =>
          /\ \A k \in 1..Len(client.operations) :
                get_schema(client'.operations[k])
                    = get_schema(client.operations[k])
          /\ result'.op = "get_schema" =>
                /\ result'.ret = get_schema(client.operations[result'.k])
                /\ client' = client /\ session' = session /\ paths' = paths
      ]_vars

\* a descriptor asked for after the operation was invoked and the default of
\* one of its parameters was memoized
C8_Witness ==
    /\ result.op = "get_schema"
    /\ result.ret.t = "descriptor"
    /\ ~IsNone(client.operations[result.k].call)
    /\ \E i \in 1..Len(client.operations[result.k].params) :
          ~IsNone(client.operations[result.k].params[i].default)
    /\ DOMAIN result.ret.parameters # {}

\* the servers of the document flagged as session endpoint
Flagged == {i \in 1..Len(servers) : servers[i].session_endpoint}

\* the calls of session.get_url in the log
GetUrlCalls == {i \in 1..Len(log) : log[i].ev = "get_url"}

\* what session.get_url gives when it succeeds, from the configuration
ResolvedUrl ==
    IF session.global_endpoint = EP_map THEN StrV(U_static)
    ELSE IF session.global_endpoint = EP_url THEN StrV(EP_url)
    ELSE StrV(T_https \o ServiceHost)

EndpointsServiceUrl ==
    get_global_endpoint(result.endpoint)
        \o <<"/", "endpoints", "/", "v1", "/">>
        \o (IF Truthy(result.account) THEN result.account.s
            ELSE session.account_id.s)
        \o <<"/", "residency", "/", "default", "/", "services", "/">>
        \o ServiceName \o <<"/", "endpoint">>

\* C10: Session.get_url returns a global endpoint that is an http:// or
\* https:// URL as it is and makes no call; for a named global endpoint it
\* makes at most one request, and when it returns, exactly one GET to the
\* endpoints service, and returns https:// followed by the host the
\* response gives for the service name.
C10_GetUrl ==
    result.op = "get_url" =>
        /\ IsHttpUrl(result.endpoint)
           => /\ IsNone(result.exc)
              /\ result.ret = StrV(result.endpoint)
              /\ log = <<>>
        /\ result.endpoint \in DOMAIN ENDPOINTS
           => /\ Cardinality(HttpCalls("request")) <= 1
              /\ IsNone(result.exc) =>
                    /\ Cardinality(HttpCalls("request")) = 1
                    /\ \A i \in HttpCalls("request") :
                          /\ log[i].method = "get"
                          /\ log[i].url = EndpointsServiceUrl
                    /\ HasKey(result.response.body, ServiceName)
                    /\ result.ret.t = "str"
                    /\ result.ret.s = T_https \o
                          GetKey(result.response.body, ServiceName).s

C10_Witness ==
    /\ result.op = "get_url"
    /\ result.endpoint = EP_production
    /\ Cardinality(HttpCalls("request")) = 1
    /\ result.ret = StrV(T_https \o ServiceHost)

\* every HTTP call in the log, the session's own authentication included
AllHttpCalls == {i \in 1..Len(log) : log[i].ev = "http"}

\* C11: an invocation makes at most one request through session.request:
\* none when it fails before the transport is called, exactly one when it
\* returns a response, and that request is the last call made and carries
\* the serialized parameters; any other HTTP call of the invocation is an
\* authentication call of the session and comes before it.
C11_OneTransportRequest ==
    Invoked =>
        /\ Cardinality(HttpCalls("request")) <= 1
        /\ result.url = <<>> => HttpCalls("request") = {}
        /\ result.ret.t = "response" =>
              /\ HttpCalls("request") = {Len(log)}
              /\ log[Len(log)].url = result.url
              /\ log[Len(log)].method = InvokedOp.method
              /\ log[Len(log)].params = result.b.query
              /\ log[Len(log)].cookies = result.b.cookie
              /\ \A h \in DOMAIN result.b.header :
                    log[Len(log)].headers[h] = result.b.header[h]
        /\ \A i \in AllHttpCalls \ HttpCalls("request") :
              log[i].kind \in {"authenticate", "token_info"}

\* a response returned after two HTTP calls: the session authenticated for
\* the default of account_id, then the request was sent
C11_Witness ==
    /\ Invoked
    /\ result.ret.t = "response"
    /\ Cardinality(AllHttpCalls) = 2
    /\ Cardinality(HttpCalls("request")) = 1
    /\ N_account_id \in DOMAIN result.b.path \cup DOMAIN result.b.query

\* C11 as stated: an invocation that returns a response has caused exactly
\* one HTTP call, and one that fails while the parameters or the body are
\* serialized has caused none.
C11_ExactlyOneHttpCall ==
    Invoked =>
        /\ result.ret.t = "response" => Cardinality(AllHttpCalls) = 1
        /\ result.url = <<>> => AllHttpCalls = {}

\* the invocation failed while the parameters or the body were serialized
FailedSerializing == Invoked /\ ~IsNone(result.exc) /\ result.url = <<>>

SelectedVariant == ContentOf(InvokedOp.body.content, result.ct)

\* the value the selected variant consumes from the given keywords does not
\* validate against the variant's schema
InvalidPayload ==
    IF SelectedVariant.cls = "Object"
    THEN /\ \A i \in 1..Len(SelectedVariant.required_properties) :
               SelectedVariant.required_properties[i] \in DOMAIN result.kwargs
         /\ ~(SelectedVariant.required
                /\ Supplied(SelectedVariant.properties, result.kwargs) = <<>>)
         /\ ~Validates(SelectedVariant.schema,
                       DictV(Supplied(SelectedVariant.properties, result.kwargs)))
    ELSE /\ SelectedVariant.name \in DOMAIN result.kwargs
         /\ ~Validates(SelectedVariant.schema,
                       result.kwargs[SelectedVariant.name])

\* C14: whatever the class of the selected variant (object, scalar, opaque),
\* a payload that does not validate against the variant's schema makes the
\* invocation fail with the schema-validation error, and no payload is
\* produced or sent.
C14_BodyValidated ==
    (InvokedWithBody /\ result.ct # <<>> /\ InvalidPayload)
    => /\ result.exc = ValidationError
       /\ result.url = <<>>
       /\ HttpCalls("request") = {}

\* the state C14 fails in: a mapping given for a body of type string is sent
\* as it is
C14_ScalarNotValidated ==
    /\ InvokedWithBody /\ result.ct # <<>>
    /\ SelectedVariant.cls = "Simple"
    /\ SelectedVariant.schema.type = "string"
    /\ result.kwargs = (DATA :> BodyObject)
    /\ IsNone(result.exc)
    /\ result.ret.t = "response"
    /\ kw[DATA] = BodyObject

\* C15: the keywords left after serialization that carry the internal
\* prefix reach the transport under their names without the prefix, with
\* their values as given, and the invocation goes on to the transport call.
C15_InternalUnwrapped ==
    (Invoked /\ session.present /\ Internal(result.kwargs) # {}
        /\ ~ExcIs(result.exc, "AuthenticationException"))
    => \E i \in HttpCalls("request") :
          \A k \in Internal(result.kwargs) :
              /\ Tail(k) \in DOMAIN log[i].options
              /\ log[i].options[Tail(k)] = result.kwargs[k]
              /\ k \notin DOMAIN log[i].options

\* the state C15 fails in: the loop that renames the keyword raised and the
\* transport was not called
C15_RenameRaised ==
    /\ Invoked /\ session.present
    /\ result.kwargs = (N_timeout :> IntV(5))
    /\ ExcIs(result.exc, "RuntimeError")
    /\ kw = (Tail(N_timeout) :> IntV(5))
    /\ HttpCalls("request") = {}

\* C16: a session created with an account id keeps it as Session.account_id
\* whatever it authenticates and requests; one created without gets the
\* account id the authentication response reports (or none yet; the empty
\* one when it was told to skip authentication).
C16_GivenAccountKept ==
    session.present =>
        /\ ~IsNone(session.config_account_id)
           => session.account_id = session.config_account_id
        /\ IsNone(session.config_account_id)
           => session.account_id \in
                 {NoneV, GetKey(AccountInfo, K("id")), StrV(<<>>)}

\* the state C16 fails in: created with an account id and told to skip
\* authentication, the session has the empty account id after a request
C16_SkipOverwrites ==
    /\ Invoked /\ session.present
    /\ session.config_account_id = ACCOUNT
    /\ session.account_id = StrV(<<>>)
    /\ result.ret.t = "response"

\* the callers whose invocation has returned
Returned == {t \in Callers : threads[t].pc = "done"}

\* the requests to the transport among the calls caller t's invocation made
RequestsOf(t) ==
    {i \in 1..Len(threads[t].out.log) :
        /\ threads[t].out.log[i].ev = "http"
        /\ threads[t].out.log[i].kind = "request"}

\* the query a caller's own arguments serialize to
OwnQuery(t) ==
    IF Underscore(N_x_id) \in DOMAIN threads[t].kwargs
    THEN (N_x_id :> serialize_value("boolean", threads[t].kwargs[Underscore(N_x_id)]))
    ELSE EmptyMap

\* C17: whatever the interleaving of callers that share a client without a
\* lock, every invocation builds its request from its own arguments and
\* makes its own single transport call, and the function memoized on the
\* operation, whoever built it, differs from a newly built one in identity
\* only.
C17_MemoizationRaceSafe ==
    /\ \A t \in Returned :
          /\ threads[t].f.t = "function"
          /\ threads[t].f.self = client.operations[1].operation_id
          /\ IsNone(threads[t].out.exc)
          /\ threads[t].out.b.query = OwnQuery(t)
          /\ threads[t].out.b.path = (N_account_id :> ACCOUNT)
          /\ Cardinality(RequestsOf(t)) = 1
          /\ \A i \in RequestsOf(t) :
                /\ threads[t].out.log[i].params = OwnQuery(t)
                /\ threads[t].out.log[i].url = threads[t].out.url
    /\ client.state = "ready" =>
          \A k \in 1..Len(client.operations) :
              \/ IsNone(client.operations[k].call)
              \/ [client.operations[k].call EXCEPT !.by = 0]
                    = _gen_call(client.operations[k], 0)

\* both callers found no function memoized and built one each: caller 1
\* ran the one it built, caller 2's is the one memoized, and each sent its
\* own arguments
C17_Witness ==
    /\ Returned = Callers
    /\ threads[1].n = 1 /\ threads[2].n = 1
    /\ threads[1].f.by = 1
    /\ client.operations[1].call.by = 2
    /\ threads[1].out.b.query = (N_x_id :> StrV(<<"true">>))
    /\ threads[2].out.b.query = (N_x_id :> StrV(<<"false">>))

\* an operation without what it memoizes: the function of the first call
\* and, when withDefaults, the defaults of its parameters
Unmemoized(op, withDefaults) ==
    [op EXCEPT !.call = NoneV,
               !.params = [j \in DOMAIN @ |->
                              IF withDefaults
                              THEN [@[j] EXCEPT !.default = NoneV]
                              ELSE @[j]]]

\* the client without what its operations memoize
WithoutMemos(c, withDefaults) ==
    [c EXCEPT !.operations =
                  [k \in DOMAIN @ |-> Unmemoized(@[k], withDefaults)]]

\* a step that is an invocation of an operation of the built client
InvokeStep == client.state = "ready" /\ result'.op = "invoke"

NodeAddress == Walk(doc.h, doc.root, NodePointer)
Normalized == doc.state = "normalized"

\* the schema of GET /x in the document as it was loaded
SourceNode == GetKey(GetKey(GetKey(GetKey(doc.src, PATHS), K_x), K_get), K_schema)

\* the objects a mapping or a list holds
Children(c) ==
    IF IsMapping(c) THEN {c.d[i][2] : i \in 1..Len(c.d)}
    ELSE IF IsArray(c) THEN {c.l[i] : i \in 1..Len(c.l)}
    ELSE {}

\* the objects that can be reached from those of `seen`
RECURSIVE ReachableFrom(_, _)
ReachableFrom(h, seen) ==
    IF UNION {Children(h[a]) : a \in seen} \subseteq seen THEN seen
    ELSE ReachableFrom(h, seen \cup UNION {Children(h[a]) : a \in seen})

\* the mappings under `paths` that still hold a reference
RefsUnderPaths ==
    {a \in ReachableFrom(doc.h, {MGet(doc.h[doc.root], PATHS)}) :
        IsMapping(doc.h[a]) /\ REF \in MKeys(doc.h[a])}

\* C20: when the document has been resolved, before anything is indexed,
\* no mapping that can be reached from `paths` holds a $ref key
C20_FullyDereferenced ==
    (Normalized /\ IsNone(doc.exc)) => RefsUnderPaths = {}

\* the schema of GET /x referred to A, which refers to B, which refers to C:
\* after the resolution it is the mapping that refers to B
C20_ChainLeft ==
    /\ Normalized /\ IsNone(doc.exc)
    /\ SourceNode = RefTo("A")
    /\ Value(doc.h, NodeAddress, 2) = RefTo("B")
    /\ NodeAddress \in RefsUnderPaths

\* a value without the order of its keys and of its items
RECURSIVE Canon(_)
Canon(v) ==
    IF v.t = "dict"
    THEN [t |-> "object",
          m |-> [k \in {v.d[i][1] : i \in 1..Len(v.d)} |-> Canon(GetKey(v, k))]]
    ELSE IF v.t = "list"
    THEN [t |-> "array", s |-> {Canon(v.l[i]) : i \in 1..Len(v.l)}]
    ELSE v

\* the merge of two values, the earlier one first: objects key by key,
\* arrays as sets, and of anything else the earlier one
RECURSIVE DeepMerged(_, _)
DeepMerged(x, y) ==
    IF x.t = "object" /\ y.t = "object"
    THEN [t |-> "object",
          m |-> [k \in DOMAIN x.m \cup DOMAIN y.m |->
                    IF k \in DOMAIN x.m /\ k \in DOMAIN y.m
                    THEN DeepMerged(x.m[k], y.m[k])
                    ELSE IF k \in DOMAIN x.m THEN x.m[k] ELSE y.m[k]]]
    ELSE IF x.t = "array" /\ y.t = "array"
    THEN [t |-> "array", s |-> x.s \cup y.s]
    ELSE x

RECURSIVE MergedAll(_, _)
MergedAll(x, rest) ==
    IF rest = <<>> THEN x ELSE MergedAll(DeepMerged(x, Canon(rest[1])), Tail(rest))

\* the branches of the node's allOf, a reference replaced by its target
SourceBranches ==
    [i \in 1..Len(GetKey(SourceNode, ALL_OF).l) |->
        IF GetKey(SourceNode, ALL_OF).l[i] = RefTo("A") THEN SchemaA
        ELSE GetKey(SourceNode, ALL_OF).l[i]]
\* the node's own keys
SourceOwn == DictV(SelectSeq(SourceNode.d, LAMBDA p : p[1] # ALL_OF))
HasAllOf == doc.state # "none" /\ HasKey(SourceNode, ALL_OF)

\* C19: a node with an allOf of one branch or more comes out of the
\* resolution without the allOf key and as the deep merge of its own keys
\* and of every branch, in the order they are declared: the union of the
\* keys, and for a key in conflict the earliest scalar, the union of the
\* arrays, the recursive merge of the objects.
C19_AllOfDeepMerged ==
    (Normalized /\ HasAllOf) =>
        /\ IsNone(doc.exc)
        /\ ALL_OF \notin MKeys(doc.h[NodeAddress])
        /\ Canon(Value(doc.h, NodeAddress, 6))
              = MergedAll(Canon(SourceOwn), SourceBranches)

\* an allOf of three branches: the resolution ends with AttributeError, the
\* allOf key popped and nothing merged
C19_ThreeBranchesRaise ==
    /\ Normalized /\ HasAllOf
    /\ Len(SourceBranches) = 3
    /\ doc.exc = AttributeError(<<"keys">>)
    /\ Value(doc.h, NodeAddress, 6) = SourceOwn


\* the mappings under `paths` that still hold an allOf key
AllOfUnderPaths ==
    {a \in ReachableFrom(doc.h, {MGet(doc.h[doc.root], PATHS)}) :
        IsMapping(doc.h[a]) /\ ALL_OF \in MKeys(doc.h[a])}

\* C21: allOf is merged bottom-up, a nested allOf (written in the branch or
\* in the schema the branch refers to) before its parent, so that when the
\* document has been resolved no mapping that can be reached from `paths`
\* holds an allOf key
C21_NoAllOfLeft ==
    (Normalized /\ IsNone(doc.exc)) => AllOfUnderPaths = {}

\* the schema of GET /x was an allOf whose one branch referred to A, itself
\* an allOf that had not been merged yet: it comes out holding A's allOf
C21_RefBranchKeepsAllOf ==
    /\ Normalized /\ IsNone(doc.exc)
    /\ SourceNode = AllOfNode(DictV(<<>>), <<RefTo("A")>>)
    /\ Value(doc.h, NodeAddress, 4)
          = AllOfNode(DictV(<<>>), <<TypeOnly("string")>>)


Indexing == doc.state = "indexed"

\* the objects of the schemas A and B as the document holds them
SchemaAddress(name) == Walk(doc.h, doc.root, <<K_components, K_schemas, K(name)>>)

\* the document declares a schema that refers to itself or to an ancestor
SelfReferential ==
    doc.state # "none" /\ \E s \in {SelfSchemas, AncestorSchemas} :
        GetKey(GetKey(doc.src, K_components), K_schemas)
            \in {DictV(s), DictV(Reversed(s))}

\* the operation of GET /x as the document declared it
SourceOperation == GetKey(GetKey(GetKey(doc.src, PATHS), K_x), K_get)

\* C22: the resolution ends on a document with a schema that refers to
\* itself or to an ancestor, and the construction of the Client over it
\* completes: indexing its operations, each declaring its responses, ends
\* without an exception
C22_SelfReferenceConstructs ==
    /\ (doc.state = "normalized" /\ SelfReferential) => IsNone(doc.exc)
    /\ (Indexing /\ SelfReferential /\ HasKey(SourceOperation, RESPONSES))
           => IsNone(doc.exc)

\* the responses of GET /x refer to A, which holds itself after the
\* resolution: json.dumps of the responses raises ValueError and nothing is
\* indexed
C22_CircularResponse ==
    /\ Indexing /\ SelfReferential
    /\ SourceOperation = OperationOf(NoneV, RefTo("A"))
    /\ Circular(doc.h, SchemaAddress("A"))
    /\ doc.exc = ValueError(<<"Circular reference detected">>)
    /\ doc.operations = <<>>


AskedServerUrl == result.op = "server_url"
\* the server whose URL was asked, and the variables of its template
AskedServer == client.servers[result.server]
TemplateVariables(url) ==
    {SubSeq(url, i + 1, FieldEnd(url, i) - 1) :
        i \in {j \in 1..Len(url) : url[j] = "{"}}

\* C23: whenever a server's URL is used, the URL is made and every variable
\* of the server's template has been substituted in it; a template with a
\* variable that has no value never gets that far, because the construction
\* of the Client fails
C23_VariablesSubstituted ==
    AskedServerUrl =>
        /\ result.ret.ok
        /\ \A i \in 1..Len(result.ret.s) : result.ret.s[i] \notin {"{", "}"}

\* the document declares region with a default and the caller passed a value
\* for zone only: the Client is constructed, and asking the server's URL
\* afterwards raises (str.format finds no region)
C23_LateKeyError ==
    /\ AskedServerUrl
    /\ client.state = "ready"
    /\ AskedServer.spec.variables = (N_region :> StrV(<<"us">>))
    /\ AskedServer.variables = (N_zone :> StrV(<<"eu">>))
    /\ TemplateVariables(AskedServer.url.s) = {N_region}
    /\ ~result.ret.ok


\* the parameters Operation k of the index is expected to hold when it was
\* indexed from method j of path i of the document ps
ExpectedParams(ps, i, j) ==
    [n \in 1..Len(ps[i].methods[j].op.parameters \o ps[i].parameters) |->
        PathParameter((ps[i].methods[j].op.parameters \o ps[i].parameters)[n])]

\* C24: when a Client is constructed, every method entry that has an
\* operation id is indexed as an Operation whose parameters are the
\* method's own parameters followed by the path-level parameters of its
\* path, and nothing else: no parameter of another path
C24_PathParametersPropagated ==
    [][(client.state = "unbuilt" /\ client'.state = "ready") =>
          /\ \A k \in 1..Len(client'.operations) :
                \E i \in 1..Len(paths) : \E j \in 1..Len(paths[i].methods) :
                    /\ paths[i].path = client'.operations[k].path
                    /\ paths[i].methods[j].method = client'.operations[k].method
                    /\ client'.operations[k].params = ExpectedParams(paths, i, j)
          /\ \A i \in 1..Len(paths) : \A j \in 1..Len(paths[i].methods) :
                Truthy(paths[i].methods[j].op.operationId) =>
                    \E k \in 1..Len(client'.operations) :
                        /\ client'.operations[k].path = paths[i].path
                        /\ client'.operations[k].method = paths[i].methods[j].method
      ]_vars

\* a constructed Client with an operation under /things/{id}, which holds
\* its own account_id and the path-level id, and one under /things, which
\* holds account_id alone
C24_Witness ==
    /\ client.state = "ready"
    /\ \E k \in 1..Len(client.operations) :
          /\ client.operations[k].path = IndexPaths[2]
          /\ [n \in 1..Len(client.operations[k].params) |->
                 client.operations[k].params[n].schema_name]
                = <<N_account_id, N_id>>
    /\ \E k \in 1..Len(client.operations) :
          /\ client.operations[k].path = IndexPaths[1]
          /\ [n \in 1..Len(client.operations[k].params) |->
                 client.operations[k].params[n].schema_name]
                = <<N_account_id>>


Reindexed == result.op = "set_server"

\* C25: after a Client has been constructed, set_server(s) completes
\* without error and yields an index with the same operation ids as before,
\* each operation with the same parameters, request body, description and
\* response schema, and bound to s
C25_ReindexRepeatable ==
    [][(client.state = "ready" /\ Reindexed') =>
          /\ IsNone(result'.exc)
          /\ Len(client'.operations) = Len(client.operations)
          /\ \A k \in 1..Len(client.operations) :
                /\ client'.operations[k].operation_id
                      = client.operations[k].operation_id
                /\ client'.operations[k].params = client.operations[k].params
                /\ client'.operations[k].body = client.operations[k].body
                /\ client'.operations[k].description
                      = client.operations[k].description
                /\ client'.operations[k].response.response_schema
                      = client.operations[k].response.response_schema
                /\ client'.operations[k].server = result'.server
      ]_vars

\* set_server on a Client whose document declares an operation: the
\* responses were popped by the construction, OperationResponse(None)
\* raises AttributeError and the index is left empty
C25_ReindexRaises ==
    /\ Reindexed
    /\ \E i \in 1..Len(paths) : \E j \in 1..Len(paths[i].methods) :
          /\ Truthy(paths[i].methods[j].op.operationId)
          /\ IsNone(paths[i].methods[j].op.responses)
    /\ ExcIs(result.exc, "AttributeError")
    /\ client.operations = <<>>


\* the parameters of the invoked operation that share their keyword name
\* with another parameter of it
SharingKeyword ==
    {i \in 1..Len(InvokedOp.params) :
        \E j \in 1..Len(InvokedOp.params) :
            j # i /\ InvokedOp.params[j].name = InvokedOp.params[i].name}

\* C26: an invocation that supplies a keyword value for every required
\* parameter name does not fail with the missing-parameter error, also when
\* two parameters share a keyword name; and when the parameters have been
\* serialized, each parameter whose keyword was supplied is sent with the
\* supplied value
C26_SuppliedNamesSuffice ==
    (Invoked /\ session.present /\ RequiredNames \subseteq DOMAIN result.kwargs)
    => /\ ~(ExcIs(result.exc, "ValueError") /\ result.exc.msg = "is required")
       /\ Reached =>
             \A i \in 1..Len(InvokedOp.params) :
                 InvokedOp.params[i].name \in DOMAIN result.kwargs =>
                     /\ InvokedOp.params[i].schema_name
                           \in DOMAIN result.b[InvokedOp.params[i].in]
                     /\ result.b[InvokedOp.params[i].in]
                                [InvokedOp.params[i].schema_name]
                           = serialize_value(
                                 InvokedOp.params[i].datatype,
                                 result.kwargs[InvokedOp.params[i].name])

\* the required query parameter x-id is listed twice, as it is when the
\* method and its path both declare it; x_id is supplied: the first
\* parameter takes the value out of the kwargs and the second raises
\* "'x_id' is required"
C26_SecondRaisesRequired ==
    /\ Invoked /\ session.present
    /\ Len(InvokedOp.params) = 2 /\ SharingKeyword = {1, 2}
    /\ InvokedOp.params[1].spec = ParamSpec(N_x_id, "query", TRUE, "string")
    /\ InvokedOp.params[2].spec = ParamSpec(N_x_id, "query", TRUE, "string")
    /\ Underscore(N_x_id) \in DOMAIN result.kwargs
    /\ ExcIs(result.exc, "ValueError") /\ result.exc.msg = "is required"
    /\ result.exc.name = Underscore(N_x_id)


Requesting == result.op = "request"
\* the calls of an authentication exchange, and the requests, in a log
AuthEvents(lg) ==
    {i \in 1..Len(lg) : lg[i].ev = "http"
                        /\ lg[i].kind \in {"authenticate", "token_info"}}
RequestEvents(lg) ==
    {i \in 1..Len(lg) : lg[i].ev = "http" /\ lg[i].kind = "request"}

\* C27: a Session.request call starts an authentication exchange only when
\* it finds the token unset; an exchange that succeeds leaves a token set
\* and a call that finds a token keeps it, so that no later request
\* authenticates again; and every request handed to the HTTP layer carries
\* in x-aims-auth-token the session's token, which is not None, whatever the
\* caller put in that header
C27_AuthenticateOnlyWhenUnset ==
    [][Requesting' =>
          /\ AuthEvents(log') # {} => IsNone(session.token)
          /\ ~IsNone(session.token) => session'.token = session.token
          /\ (AuthEvents(log') # {}
              /\ ~ExcIs(result'.exc, "AuthenticationException"))
                 => ~IsNone(session'.token)
          /\ \A i \in RequestEvents(log') :
                /\ H_token \in DOMAIN log'[i].headers
                /\ log'[i].headers[H_token] = session'.token
                /\ ~IsNone(session'.token)
      ]_vars

\* a request that found no token, authenticated, and was sent with the new
\* token in place of the caller's header
C27_Witness ==
    /\ Requesting
    /\ result.headers = (H_token :> StrV(<<"mine">>))
    /\ AuthEvents(log) # {} /\ RequestEvents(log) # {}
    /\ session.token = StrV(<<"123">>)
    /\ \A i \in RequestEvents(log) : log[i].headers[H_token] = StrV(<<"123">>)


Authenticating == result.op = "authenticate"
KindsOf(lg) == [i \in 1..Len(lg) |-> lg[i].kind]

\* C28: one _authenticate makes at most one token_info call and at most one
\* authenticate call and ends.  When the session holds a token that
\* token_info rejects with an HTTP error, the token is discarded and one
\* credential authentication follows, ending with a new token set or with
\* AuthenticationException.  With the credentials skip/skip and no token, no
\* HTTP call is made and the token becomes the empty string.
C28_AuthenticateTerminates ==
    [][Authenticating' =>
          /\ \A i \in 1..Len(log') : log'[i].ev = "http"
          /\ KindsOf(log') \in {<<>>, <<"token_info">>, <<"authenticate">>,
                                <<"token_info", "authenticate">>}
          /\ (Truthy(session.token) /\ IsHttpError(result'.env.token_info)) =>
                /\ KindsOf(log') = <<"token_info", "authenticate">>
                /\ \/ /\ IsNone(result'.exc)
                      /\ Truthy(session'.token)
                      /\ session'.token = GetKey(GetKey(result'.env.authenticate.body,
                                                        K("authentication")),
                                                 K("token"))
                   \/ ExcIs(result'.exc, "AuthenticationException")
          /\ (~Truthy(session.token) /\ session.access_key_id = SKIP
              /\ session.secret_key = SKIP) =>
                /\ log' = <<>>
                /\ IsNone(result'.exc)
                /\ session'.token = StrV(<<>>)
      ]_vars

\* a token was rejected by token_info, and the credential authentication
\* that followed set the new token
C28_Witness ==
    /\ Authenticating
    /\ KindsOf(log) = <<"token_info", "authenticate">>
    /\ log[1].headers[H_token] = TOKEN
    /\ IsNone(result.exc)
    /\ session.token = StrV(<<"123">>)


---------------------------------------------------------------------------
\* ---- the paging of a search
ResultsEvents(trace) == SelectSeq(trace, LAMBDA e : e.ev = "results")
SinceCall(trace) == SubSeq(trace, LastCall(trace) + 1, Len(trace))
PagesOf(rs) == [i \in 1..Len(rs) |-> rs[i].page]
\* the token of the last page that left rows behind, None when there is none
RECURSIVE LastToken(_)
LastToken(rs) ==
    IF rs = <<>> THEN NoneV
    ELSE IF rs[Len(rs)].page.remaining # IntV(0) THEN rs[Len(rs)].page.next_token
    ELSE LastToken(SubSeq(rs, 1, Len(rs) - 1))
FirstRequestHasLimit(rs) ==
    rs # <<>> => rs[1].limit = IntV(ROWS_PER_FETCH) /\ IsNone(rs[1].starting_token)
LaterRequestsHaveToken(rs) ==
    \A i \in 2..Len(rs) :
        rs[i - 1].page.remaining # IntV(0)
            => rs[i].starting_token = rs[i - 1].page.next_token /\ IsNone(rs[i].limit)
\* the pages fetch_all has fetched: none but the last one reports no rows
\* left, and that one ends the call
StopsAtLastPage(sr, own) ==
    \A i \in 1..Len(own) :
        own[i].page.remaining = IntV(0) => i = Len(own) /\ sr.pc = "idle"
ReturnsFetchedPages(sr, own) ==
    (sr.pc = "idle" /\ sr.out.t = "returned")
        => /\ sr.out.ret = ListV(PagesOf(own))
           /\ own # <<>> => own[Len(own)].page.remaining = IntV(0)

\* C29: since load_results the first results request carries the row limit
\* and no starting token; a results request that follows a page with rows
\* remaining carries the next_token of that page, the one immediately before
\* it; next_token is the token of the last page that reported remaining != 0
\* (a page reporting 0 leaves it alone); fetch_all makes no results request
\* after a page reporting remaining == 0, and it returns the pages it
\* fetched, in the order of the requests.
C29_PagingProtocol ==
    search.state = "loaded" =>
        /\ FirstRequestHasLimit(ResultsEvents(search.trace))
        /\ LaterRequestsHaveToken(ResultsEvents(search.trace))
        /\ search.next_token = LastToken(ResultsEvents(search.trace))
        /\ search.op = "fetch_all" =>
              /\ StopsAtLastPage(search, ResultsEvents(SinceCall(search.trace)))
              /\ ReturnsFetchedPages(search, ResultsEvents(SinceCall(search.trace)))
\* fetch_all has returned three pages, the second fetched after a wait
C29_Witness ==
    /\ search.state = "loaded"
    /\ search.op = "fetch_all"
    /\ search.pc = "idle"
    /\ search.out = Returned_(ListV(PagesOf(ResultsEvents(search.trace))))
    /\ Len(ResultsEvents(search.trace)) = 3
    /\ Cardinality(EventsOf(search.trace, "sleep")) > 0
    /\ search.next_token = ResultsEvents(search.trace)[2].page.next_token
    /\ ResultsEvents(search.trace)[1].page.next_token
         # ResultsEvents(search.trace)[2].page.next_token


---------------------------------------------------------------------------
\* ---- the polling of a search
StatusesOf(tr) == SelectSeq(tr, LAMBDA e : e.ev = "status")
\* wait_for_complete or fetch has been called, and runs or has ended
Polling ==
    /\ search.state = "loaded"
    /\ search.op \in {"wait_for_complete", "fetch"}
OneRequestWhenNotBlocking(sr, tr, ss) ==
    /\ Len(ss) <= 1
    /\ EventsOf(tr, "sleep") = {}
    /\ sr.pc = "status" <=> ss = <<>>
    /\ sr.pc = "idle" =>
          /\ Len(ss) = 1
          /\ ss[1].status = "pending" => sr.out = Returned_(NoneV)
          /\ ss[1].status = "failed" <=> sr.out.t = "raised"
EndsAtFirstSettled(sr, ss) ==
    /\ \A i \in 1..(Len(ss) - 1) : ss[i].status = "pending"
    /\ sr.pc \in {"status", "sleep"} => \A i \in 1..Len(ss) : ss[i].status = "pending"
    /\ sr.pc = "results" => ss[Len(ss)].status \in {"complete", "suspended"}
    /\ sr.pc = "idle" =>
          /\ ss # <<>>
          /\ sr.out.t = "raised" <=> ss[Len(ss)].status = "failed"
          /\ sr.out.t = "returned" <=> ss[Len(ss)].status \in {"complete", "suspended"}
SleepsBetweenRequests(tr) ==
    \A i, j \in EventsOf(tr, "status") :
        i < j => \E k \in EventsOf(tr, "sleep") : i < k /\ k < j
PollingAsIntended ==
    Polling =>
        /\ ~search.block =>
              OneRequestWhenNotBlocking(search, SinceCall(search.trace),
                                        StatusesOf(SinceCall(search.trace)))
        /\ search.block =>
              EndsAtFirstSettled(search, StatusesOf(SinceCall(search.trace)))
        /\ SleepsBetweenRequests(SinceCall(search.trace))
SearchCallRuns == search.state = "loaded" /\ search.pc # "idle"
SearchCallEnded == search.state = "loaded" /\ search.pc = "idle"

============================================================================
